---- MODULE Spec2Model ----
(***************************************************************************)
(* Verification model of the elf-simulations pricing core.                 *)
(*                                                                         *)
(* Part 1: FixedPointMath (src/elfpy/utils/math/fixed_point_math.py).      *)
(*   Python integers are unbounded, so the kernel is modelled on exact     *)
(*   integers of arbitrary size: a value is a sign and a little-endian     *)
(*   sequence of limbs in base 4096.  All constants of the source keep     *)
(*   their real values (ONE_18 = 10^18, INT_MAX = sys.maxsize = 2^63 - 1). *)
(* Part 2: HyperdrivePricingModel (src/elfpy/pricing_models/hyperdrive.py) *)
(***************************************************************************)
EXTENDS Integers, Sequences, FiniteSets, TLC

(***************************************************************************)
(* Exact integers (the arithmetic of Python's int).                        *)
(***************************************************************************)
\* limbs of 12 bits
Base == 2^12

MaxIn(S) == CHOOSE x \in S : \A y \in S : y <= x

\* m without its leading (most significant) zero limbs
Trim(m) ==
    IF m = <<>> THEN m
    ELSE IF m[Len(m)] # 0 THEN m
    ELSE LET nz == {i \in 1..Len(m) : m[i] # 0}
         IN IF nz = {} THEN <<>> ELSE SubSeq(m, 1, MaxIn(nz))

Limb(m, i) == IF i >= 1 /\ i <= Len(m) THEN m[i] ELSE 0

MaxOf(a, b) == IF a >= b THEN a ELSE b

\* the sequence with the elements of f, computed once
Seqd(f) == SubSeq(f, 1, Len(f))

\* e, after v has been computed (operator arguments are otherwise evaluated
\* only where they are first used, arbitrarily deep in a recursion)
Force(v, e) == IF v = v THEN e ELSE e

\* -1, 0 or 1 as a < b, a = b, a > b (magnitudes without leading zero limbs)
MagCmp(a, b) ==
    IF Len(a) # Len(b) THEN (IF Len(a) < Len(b) THEN -1 ELSE 1)
    ELSE IF a = b THEN 0
    ELSE LET t == MaxIn({i \in 1..Len(a) : a[i] # b[i]})
         IN IF a[t] < b[t] THEN -1 ELSE 1

\* One round of carry propagation over columns that may exceed the base or be
\* negative: every column keeps its residue and hands its carry to the next.
Reduce(cols) ==
    Seqd([i \in 1..(Len(cols) + 1) |->
        (Limb(cols, i) % Base) + (IF i = 1 THEN 0 ELSE cols[i - 1] \div Base)])

\* columns in 0..Base: a carry enters i when a lower column overflows and every
\* column in between is full
CarryIn(v, i) ==
    \E j \in 1..(i - 1) :
        v[j] >= Base /\ \A k \in (j + 1)..(i - 1) : v[k] >= Base - 1

\* columns in -1..Base-1: a borrow enters i when a lower column is negative and
\* every column in between is empty
BorrowIn(v, i) ==
    \E j \in 1..(i - 1) :
        v[j] < 0 /\ \A k \in (j + 1)..(i - 1) : v[k] <= 0

Resolve(v) ==
    Seqd([i \in 1..Len(v) |->
        (v[i] + (IF CarryIn(v, i) THEN 1 ELSE 0)
              - (IF BorrowIn(v, i) THEN 1 ELSE 0)) % Base])

\* the limbs of the number whose columns are cols: in -Base..2*Base (one round
\* brings every column into -1..Base), below 2^24 (two), below 2^30 (three)
Normalize1(cols) == Trim(Resolve(Reduce(cols)))
Normalize2(cols) == Trim(Resolve(Reduce(Reduce(cols))))
Normalize3(cols) == Trim(Resolve(Reduce(Reduce(Reduce(cols)))))

MagAdd(a, b) ==
    Normalize1(Seqd([i \in 1..MaxOf(Len(a), Len(b)) |-> Limb(a, i) + Limb(b, i)]))

\* a - b for a >= b
MagSub(a, b) ==
    Normalize1(Seqd([i \in 1..Len(a) |-> a[i] - Limb(b, i)]))

MagMulSmall(a, n) ==
    Normalize2(Seqd([i \in 1..Len(a) |-> a[i] * n]))

\* sum of a[i] * b[k + 1 - i] for i in lo..hi
RECURSIVE ColSum(_, _, _, _, _)
ColSum(a, b, k, lo, hi) ==
    IF lo > hi THEN 0
    ELSE IF lo = hi THEN a[lo] * b[k + 1 - lo]
    ELSE LET mid == (lo + hi) \div 2
         IN ColSum(a, b, k, lo, mid) + ColSum(a, b, k, mid + 1, hi)

MagMul(a, b) ==
    IF a = <<>> \/ b = <<>> THEN <<>>
    ELSE Normalize3(Seqd(
            [k \in 1..(Len(a) + Len(b) - 1) |->
                ColSum(a, b, k, MaxOf(1, k + 1 - Len(b)),
                       IF k <= Len(a) THEN k ELSE Len(a))]))

MinOf(a, b) == IF a <= b THEN a ELSE b

\* largest q in lo..hi with q * b <= rem
RECURSIVE QDigit(_, _, _, _)
QDigit(rem, b, lo, hi) ==
    IF lo >= hi THEN lo
    ELSE LET mid == (lo + hi + 1) \div 2
         IN IF MagCmp(MagMulSmall(b, mid), rem) <= 0
            THEN QDigit(rem, b, mid, hi)
            ELSE QDigit(rem, b, lo, mid - 1)

\* the quotient digit floor(rem / b) for rem < b * Base: the leading limbs
\* bound it from both sides, the search settles it
QuotDigit(rem, b) ==
    LET n == Len(b)
        bt == b[n]
        rt == Limb(rem, n) + Base * Limb(rem, n + 1)
    IN QDigit(rem, b, rt \div (bt + 1), MinOf(Base - 1, rt \div bt))

\* long division of the limbs lo..hi of a by b, rem being the remainder of
\* the limbs above hi: the quotient limbs and the new remainder
RECURSIVE LongDiv(_, _, _, _, _)
LongDiv(a, b, lo, hi, rem) ==
    IF lo > hi THEN [q |-> <<>>, r |-> rem]
    ELSE IF lo = hi
    THEN LET digit(r1, qd) ==
                 [q |-> <<qd>>,
                  r |-> IF qd = 0 THEN r1 ELSE MagSub(r1, MagMulSmall(b, qd))]
             step(r1) ==
                 digit(r1, IF MagCmp(r1, b) < 0 THEN 0 ELSE QuotDigit(r1, b))
         IN step(Trim(<<a[lo]>> \o rem))
    ELSE LET mid == (lo + hi + 1) \div 2
             top == LongDiv(a, b, mid, hi, rem)
         IN Force(top, LET bot == LongDiv(a, b, lo, mid - 1, top.r)
                       IN [q |-> bot.q \o top.q, r |-> bot.r])

\* quotient of magnitudes, b # 0, and whether the division is exact; both
\* are first scaled so that the leading limb of the divisor is at least
\* Base / 2, which keeps the bounds on every quotient digit tight
MagDivMod(a, b) ==
    LET d == Base \div (b[Len(b)] + 1)
        outcome(res) == [q |-> Trim(res.q), exact |-> res.r = <<>>]
        scaled(an, bn) == outcome(LongDiv(an, bn, 1, Len(an), <<>>))
    IN scaled(MagMulSmall(a, d), MagMulSmall(b, d))

RECURSIVE Pow2(_)
Pow2(n) == IF n = 0 THEN 1 ELSE 2 * Pow2(n - 1)

Zeros(n) == Seqd([i \in 1..n |-> 0])

MagShl(m, n) ==
    IF m = <<>> THEN m
    ELSE Zeros(n \div 12) \o MagMulSmall(m, Pow2(n % 12))

\* floor(m / 2^n)
MagShr(m, n) ==
    LET q == n \div 12
        r == Pow2(n % 12)
        t == IF q >= Len(m) THEN <<>> ELSE SubSeq(m, q + 1, Len(m))
    IN Trim(Seqd([i \in 1..Len(t) |->
                (t[i] \div r) + (Limb(t, i + 1) % r) * (Base \div r)]))

\* number of bits of a magnitude (Python's int.bit_length)
RECURSIVE SmallBits(_)
SmallBits(n) == IF n = 0 THEN 0 ELSE 1 + SmallBits(n \div 2)

MagBitLength(m) ==
    IF m = <<>> THEN 0 ELSE (Len(m) - 1) * 12 + SmallBits(m[Len(m)])

(***************************************************************************)
(* Signed exact integers: [neg, mag], zero is never negative.              *)
(***************************************************************************)
MkInt(neg, mag) == [neg |-> neg /\ mag # <<>>, mag |-> mag]

RECURSIVE NatMag(_)
NatMag(n) == IF n = 0 THEN <<>> ELSE <<n % Base>> \o NatMag(n \div Base)

\* a small model integer as an exact integer
I(n) == IF n < 0 THEN MkInt(TRUE, NatMag(-n)) ELSE MkInt(FALSE, NatMag(n))

\* a decimal literal written in groups of four digits, most significant first
\* (the magnitude of the first n groups)
RECURSIVE DecMag(_, _)
DecMag(groups, n) ==
    IF n = 0 THEN <<>>
    ELSE LET push(acc) ==
                 Force(acc, MagAdd(MagMulSmall(acc, 10000), NatMag(groups[n])))
         IN push(DecMag(groups, n - 1))

Dec(groups) == MkInt(FALSE, DecMag(groups, Len(groups)))

INeg(a) == MkInt(~a.neg, a.mag)

\* e, after both operands have been computed
Strict(a, b, e) == IF a = a /\ b = b THEN e ELSE e

IAdd(a, b) ==
    Strict(a, b,
        IF a.neg = b.neg THEN MkInt(a.neg, MagAdd(a.mag, b.mag))
        ELSE IF MagCmp(a.mag, b.mag) >= 0 THEN MkInt(a.neg, MagSub(a.mag, b.mag))
        ELSE MkInt(b.neg, MagSub(b.mag, a.mag)))

ISub(a, b) == IAdd(a, INeg(b))

IMul(a, b) == Strict(a, b, MkInt(a.neg # b.neg, MagMul(a.mag, b.mag)))

ICmp(a, b) ==
    IF a.neg # b.neg THEN (IF a.neg THEN -1 ELSE 1)
    ELSE IF a.neg THEN MagCmp(b.mag, a.mag) ELSE MagCmp(a.mag, b.mag)

ILt(a, b) == ICmp(a, b) < 0
ILe(a, b) == ICmp(a, b) <= 0
IGt(a, b) == ICmp(a, b) > 0
IGe(a, b) == ICmp(a, b) >= 0

IZero == MkInt(FALSE, <<>>)
IOne == I(1)

\* Python's a // b (floor division), b # 0
IFloorDiv(a, b) ==
    LET floor(dm) ==
            IF a.neg = b.neg \/ dm.exact THEN MkInt(a.neg # b.neg, dm.q)
            ELSE MkInt(TRUE, MagAdd(dm.q, <<1>>))
    IN Strict(a, b, floor(MagDivMod(a.mag, b.mag)))

\* Python's a << n, n >= 0
IShl(a, n) == Force(a, MkInt(a.neg, MagShl(a.mag, n)))

\* Python's a >> n, n >= 0 (floor, also for negative a)
IShr(a, n) ==
    Force(a,
        IF ~a.neg THEN MkInt(FALSE, MagShr(a.mag, n))
        ELSE MkInt(TRUE, MagShr(MagAdd(a.mag, MagSub(MagShl(<<1>>, n), <<1>>)), n)))

\* the value of an exact integer of at most two limbs as a model integer
SmallOf(a) ==
    LET v == Limb(a.mag, 1) + Base * Limb(a.mag, 2) IN IF a.neg THEN -v ELSE v

(***************************************************************************)
(* FixedPointMath.  A call either returns a value or raises an exception   *)
(* of a Python class (kind) with a message.                                *)
(***************************************************************************)
Return(v) == [raised |-> FALSE, value |-> v]
Raise(kind, msg) == [raised |-> TRUE, kind |-> kind, msg |-> msg]

ONE_18 == Dec(<<100, 0000, 0000, 0000, 0000>>)
\* sys.maxsize of a 64-bit CPython, 2^63 - 1
INT_MAX == ISub(IShl(IOne, 63), IOne)
EXP_MIN == INeg(Dec(<<4213, 9678, 8544, 5276, 7622>>))
EXP_MAX == Dec(<<1, 3530, 5999, 3688, 9323, 1589>>)

add(a, b) ==
    LET c == IAdd(a, b)
    IN IF ILt(c, a) \/ IGt(a, ISub(INT_MAX, b))
       THEN Raise("OverflowError", "FixedPointMath_AddOverflow")
       ELSE Return(c)

\* sub that also rejects b = a (b >= a)
sub_rejects_equal(a, b) ==
    IF IGe(b, a)
    THEN Raise("OverflowError", "FixedPointMath_SubOverflow")
    ELSE Return(ISub(a, b))

sub(a, b) ==
    IF IGt(b, a)
    THEN Raise("OverflowError", "FixedPointMath_SubOverflow")
    ELSE Return(ISub(a, b))

mul_div_down(x, y, d) ==
    LET z == IMul(x, y)
        require == d # IZero /\ (x = IZero \/ IFloorDiv(z, x) = y)
    IN IF ~require
       THEN Raise("ValueError", "FixedPointMath_mulDivDown_InvalidInput")
       ELSE IF IFloorDiv(z, d) = IZero
       THEN Return(IZero)
       ELSE Return(IFloorDiv(ISub(IAdd(z, d), IOne), d))

mul_down(a, b) == mul_div_down(a, b, ONE_18)

div_down(a, b) == mul_div_down(a, ONE_18, b)

\* mul_div_up that adds one to the floor of z / d (wrong when d divides z)
mul_div_up_floor_plus_one(x, y, d) ==
    LET z == IMul(x, y)
        require == d # IZero /\ (x = IZero \/ IFloorDiv(z, x) = y)
    IN IF ~require
       THEN Raise("ValueError", "FixedPointMath_mulDivUp_InvalidInput")
       ELSE IF z = IZero
       THEN Return(IZero)
       ELSE Return(IAdd(IFloorDiv(z, d), IOne))

\* mul_div_up without the test of the divisor: Python's division raises
mul_div_up_unchecked_divisor(x, y, d) ==
    LET z == IMul(x, y)
    IN IF d = IZero
       THEN IF x = IZero \/ IFloorDiv(z, x) = y
            THEN Raise("ZeroDivisionError", "integer division or modulo by zero")
            ELSE Raise("ValueError", "FixedPointMath_mulDivUp_InvalidInput")
       ELSE IF z = IZero
       THEN Return(IZero)
       ELSE Return(IAdd(IFloorDiv(ISub(z, IOne), d), IOne))

mul_div_up(x, y, d) ==
    LET z == IMul(x, y)
        require == d # IZero /\ (x = IZero \/ IFloorDiv(z, x) = y)
    IN IF ~require
       THEN Raise("ValueError", "FixedPointMath_mulDivUp_InvalidInput")
       ELSE IF z = IZero
       THEN Return(IZero)
       ELSE Return(IAdd(IFloorDiv(ISub(z, IOne), d), IOne))

mul_up(a, b) == mul_div_up(a, b, ONE_18)

\* div_up that forgets the 1e18 scale of the quotient
div_up_unscaled(a, b) == mul_div_up(a, IOne, b)

div_up(a, b) == mul_div_up(a, ONE_18, b)

\* a caller multiplies x by y with mul_div_down(x, y, 1e18) and divides the
\* product by x again with div_up; an exception of the first call ends it
round_trip(x, y) ==
    LET inverse(product) ==
            IF product.raised THEN product ELSE div_up(product.value, x)
    IN inverse(mul_div_down(x, y, ONE_18))

\* floor(log2(x)) as a model integer, 0 for x = 0
ilog2(x) == IF x = IZero THEN 0 ELSE MagBitLength(x.mag) - 1

\* ((p * x) >> 96) + c, one step of the polynomial evaluations
Horner(p, x, c) == IAdd(IShr(IMul(p, x), 96), c)

ln_impl(x0) ==
    IF ILt(x0, IZero) THEN Raise("ValueError", "FixedPointMath_NegativeInput")
    ELSE
    LET k == ilog2(x0) - 96
        p(x) ==
            ISub(IMul(
                Horner(Horner(Horner(Horner(Horner(
                    IAdd(x, Dec(<<327, 3285, 4596, 3852, 3848, 6322, 5406, 6296>>)),
                    x, Dec(<<2482, 8157, 0818, 3316, 3892, 6580, 8944, 5524>>)),
                    x, Dec(<<4345, 6485, 7257, 3903, 7958, 7403, 7574, 3393>>)),
                    x, INeg(Dec(<<1111, 1509, 1094, 4096, 7052, 0238, 5552, 6967>>))),
                    x, INeg(Dec(<<4502, 3709, 6672, 5406, 3763, 3365, 3451, 5857>>))),
                    x, INeg(Dec(<<1470, 6773, 4173, 7860, 8786, 7046, 3618, 4526>>))),
                x), IShl(Dec(<<79, 5164, 2356, 5135, 0426, 2582, 4978, 7498>>), 96))
        q(x) ==
            Horner(Horner(Horner(Horner(Horner(Horner(
                IAdd(x, Dec(<<557, 3035, 2334, 4067, 3466, 3004, 5181, 3936>>)),
                x, Dec(<<7169, 4874, 7993, 1788, 3764, 0905, 6145, 4958>>)),
                x, Dec(<<2, 8344, 7036, 1729, 2457, 5727, 1964, 5130, 6956>>)),
                x, Dec(<<4, 0168, 6690, 3940, 2766, 3651, 6242, 0876, 9553>>)),
                x, Dec(<<2, 0404, 8457, 5903, 9201, 2362, 4850, 6181, 6622>>)),
                x, Dec(<<3185, 3899, 6985, 0157, 1402, 6533, 5942, 7138>>)),
                x, Dec(<<90, 9429, 9712, 4438, 7300, 2773, 7655, 8375>>))
        r(pv, qv) ==
            IF qv = IZero
            THEN Raise("ZeroDivisionError", "integer division or modulo by zero")
            ELSE Return(IShr(
                IAdd(IAdd(
                    IMul(IFloorDiv(pv, qv),
                         Dec(<<167, 7202, 1109, 9671, 8588, 3428, 2096, 7067, 4439, 6351, 6166>>)),
                    IMul(Dec(<<165, 9757, 7552, 6856, 1422, 1487, 2859, 5819, 3947, 4691, 9382, 0559, 2198, 7817, 7908, 0934, 9920, 8371>>), I(k))),
                    Dec(<<6009, 2017, 9829, 7318, 6173, 6702, 7793, 2162, 1459, 5954, 7225, 8049, 0741, 0156, 7377, 8830, 2001, 8308>>)),
                174))
        rational(x) == r(p(x), q(x))
    IN IF 159 - k < 0 THEN Raise("ValueError", "negative shift count")
       ELSE rational(IShr(IShl(x0, 159 - k), 159))

\* ln that lets zero through to the evaluation (x < 0)
ln_accepts_zero(x) ==
    IF ILt(x, IZero)
    THEN Raise("ValueError", "FixedPointMath_NegativeOrZeroInput")
    ELSE ln_impl(x)

ln(x) ==
    IF ILe(x, IZero)
    THEN Raise("ValueError", "FixedPointMath_NegativeOrZeroInput")
    ELSE ln_impl(x)

\* ln(2) * 2^96 cut off after its first nine digits
LN2_96_short == Dec(<<5, 4916, 7774, 0000, 0000, 0000, 0000, 0000>>)

LN2_96 == Dec(<<5, 4916, 7774, 6770, 7473, 3511, 4147, 1128>>)

\* the evaluation of exp for EXP_MIN < x0 < EXP_MAX
exp_body(x0) ==
    LET p(x) ==
            IAdd(IMul(
                Horner(Horner(Horner(
                    IAdd(x, Dec(<<277, 2001, 3956, 0585, 7295, 4354, 4549, 6992>>)),
                    x, Dec(<<4433, 5888, 9301, 2791, 9016, 8348, 7352, 0032>>)),
                    x, Dec(<<3, 9888, 8492, 5875, 0184, 5352, 5923, 4033, 9721>>)),
                    x, Dec(<<19, 9383, 9819, 6706, 2447, 0859, 2284, 9479, 2842>>)),
                x), IShl(Dec(<<43, 8527, 2521, 4548, 4790, 4659, 0769, 8569, 3276>>), 96))
        z(x) ==
            Horner(IAdd(x, Dec(<<75, 0530, 1807, 9273, 8023, 2731, 8042, 0736>>)),
                   x, Dec(<<3278, 8456, 2213, 0220, 2726, 3075, 0194, 9080>>))
        w(x, zv) ==
            Horner(ISub(x, Dec(<<221, 8138, 9595, 0348, 1824, 0381, 9442, 5854>>)),
                   zv, Dec(<<8, 9294, 3633, 3029, 9198, 0437, 3328, 6290, 7700>>))
        q(zv, wv) ==
            Horner(ISub(IAdd(zv, wv), Dec(<<7817, 4809, 8230, 4530, 4726, 9207, 9442, 2040>>)),
                   wv, Dec(<<42, 0322, 4763, 8901, 2858, 0604, 0569, 8419, 5872>>))
        knuth(x, zv) == q(zv, w(x, zv))
        r(pv, qv, k) ==
            IF qv = IZero
            THEN Raise("ZeroDivisionError", "integer division or modulo by zero")
            ELSE IF 195 - k < 0 THEN Raise("ValueError", "negative shift count")
            ELSE Return(IShr(
                IMul(IFloorDiv(pv, qv),
                     Dec(<<3, 8228, 3307, 4963, 2364, 5304, 2738, 2589, 0215, 8003, 1554, 1661, 5667>>)),
                195 - k))
        rational(x, k) == r(p(x), knuth(x, z(x)), k)
        reduced(x1, kk) == rational(ISub(x1, IMul(kk, LN2_96)), SmallOf(kk))
        scaled(x1) ==
            reduced(x1, IShr(IAdd(IFloorDiv(IShl(x1, 96), LN2_96), IShl(IOne, 95)), 96))
    IN scaled(IFloorDiv(IShl(x0, 78), Dec(<<3, 8146, 9726, 5625>>)))

\* exp with the upper bound test off by one (x > EXP_MAX)
exp_upper_exclusive(x0) ==
    IF ILe(x0, EXP_MIN) THEN Return(IZero)
    ELSE IF IGt(x0, EXP_MAX) THEN Raise("ValueError", "FixedPointMath_InvalidExponent")
    ELSE exp_body(x0)

exp(x0) ==
    IF ILe(x0, EXP_MIN) THEN Return(IZero)
    ELSE IF IGe(x0, EXP_MAX) THEN Raise("ValueError", "FixedPointMath_InvalidExponent")
    ELSE exp_body(x0)

pow(x, y) ==
    LET ylnx(lnx) ==
            IF lnx.raised THEN lnx
            ELSE exp(IFloorDiv(IMul(y, lnx.value), ONE_18))
    IN ylnx(ln(x))

\* a caller takes the logarithm of x and the exponential of the logarithm; an
\* exception of ln ends it
exp_ln(x) ==
    LET inverse(lnx) == IF lnx.raised THEN lnx ELSE exp(lnx.value)
    IN inverse(ln(x))

(***************************************************************************)
(* The kernel as a state machine: a caller issues one call (fn, args), the *)
(* call returns or raises (result), and the caller goes on to a next call, *)
(* remembering the last exception it has seen (lastErr).                   *)
(***************************************************************************)
VARIABLES fn, args, pc, result, lastErr

\* The trade engine: one call of the pricing model (tcall) by a caller that
\* owns a MarketState object in the heap; tpc is the position of the call,
\* solver_call the arguments handed to the curve solver, solver_result what
\* the solver returned or raised, tresult the outcome of the call.
VARIABLES tpc, tcall, heap, solver_call, solver_result, tresult

\* The SimpleLP policy: the history of (time, pnl) pairs the policy object
\* keeps, and of its last call of action the block number, the wallet handed
\* in, the time-weighted average computed and the outcome.
VARIABLES pnl_history, block_number, lp_wallet, twapnl, lp_result

\* The ShortSally policy: the shorts of the agent's wallet (mint time ->
\* balance), the time of the market, and of the last call of action the
\* inputs it read and the list of trades it returned.
VARIABLES shorts, block_time, sally_call, sally_action_list, sally_pc

\* The other components, each an object of its own: the simulated Market with
\* the wallet of its agent, the loop of the invariant-check script, the
\* conversion of a transaction for the database, the execution of the trades of
\* an agent, and the download of the contract addresses.
VARIABLES sim_market, invariant_loop, conversion, executor, fetcher

kernelVars == <<fn, args, pc, result, lastErr>>
tradeVars == <<tpc, tcall, heap, solver_call, solver_result, tresult>>
lpVars == <<pnl_history, block_number, lp_wallet, twapnl, lp_result>>
sallyVars == <<shorts, block_time, sally_call, sally_action_list, sally_pc>>
policyVars == <<lpVars, sallyVars, sim_market, invariant_loop, conversion, executor, fetcher>>
vars ==
    <<fn, args, pc, result, lastErr,
      tpc, tcall, heap, solver_call, solver_result, tresult,
      pnl_history, block_number, lp_wallet, twapnl, lp_result,
      shorts, block_time, sally_call, sally_action_list, sally_pc,
      sim_market, invariant_loop, conversion, executor, fetcher>>

\* no trade is in progress (the kernel is exercised on its own)
NoTradeCall == [op |-> "none"]
NoSolverCall == [called |-> FALSE]
TradeIdle ==
    /\ tpc = "idle"
    /\ tcall = NoTradeCall
    /\ heap = <<>>
    /\ solver_call = NoSolverCall
    /\ solver_result = [raised |-> FALSE]
    /\ tresult = [raised |-> FALSE]

\* no policy is running
NoWallet == [balance |-> "none"]
LPIdle ==
    /\ pnl_history = <<>>
    /\ block_number = 0
    /\ lp_wallet = NoWallet
    /\ twapnl = [raised |-> FALSE]
    /\ lp_result = [raised |-> FALSE]
NoSallyCall == [gonna_trade |-> "none"]
SallyIdle ==
    /\ shorts = <<>>
    /\ block_time = 0
    /\ sally_call = NoSallyCall
    /\ sally_action_list = <<>>
    /\ sally_pc = "idle"
\* a component that is not running
NotRunning == [pc |-> "idle"]
MarketIdle == sim_market = NotRunning
LoopIdle == invariant_loop = NotRunning
ConversionIdle == conversion = NotRunning
ExecutorIdle == executor = NotRunning
FetcherIdle == fetcher = NotRunning
ScriptsIdle == LoopIdle /\ ConversionIdle /\ ExecutorIdle /\ FetcherIdle
PolicyIdle == LPIdle /\ SallyIdle /\ MarketIdle /\ ScriptsIdle

\* bounds of the small operands that are enumerated exhaustively
MaxSmall == 5
MaxSmall3 == 3
MaxNeg == 1

\* the largest value of the 256-bit FixedPoint the kernel is specified for
UINT256_MAX == ISub(IShl(IOne, 256), IOne)

SmallVals == {I(n) : n \in (-MaxNeg)..MaxSmall}
BigVals == {I(10), ONE_18, INT_MAX, IAdd(INT_MAX, IOne), UINT256_MAX}
Vals2 == SmallVals \cup BigVals
Vals3 == {I(n) : n \in (-MaxNeg)..MaxSmall3} \cup {ONE_18, UINT256_MAX}
LnVals == Vals2 \cup {IMul(I(2), ONE_18), IShl(IOne, 255)}
ExpVals ==
    {ISub(EXP_MIN, IOne), EXP_MIN, IAdd(EXP_MIN, IOne),
     ISub(EXP_MAX, IOne), EXP_MAX, IAdd(EXP_MAX, IOne),
     INeg(ONE_18), ONE_18, IMul(I(135), ONE_18), IMul(I(-42), ONE_18)}
    \cup SmallVals
PowBases == {I(-1), IZero, IOne, I(2), ONE_18, IMul(I(2), ONE_18), UINT256_MAX}
PowExps == {I(-1), IZero, IOne, ONE_18, IMul(I(2), ONE_18), INT_MAX}

Fns2 == {"add", "sub", "mul_down", "div_down", "mul_up", "div_up"}
Fns3 == {"mul_div_down", "mul_div_up"}

\* operands of the round trip: x with zero, small values and multiples of
\* 1e18; y with values whose product with x is, and is not, a multiple of 1e18
RoundTripXs == {IZero, IOne, I(2), I(4), ONE_18, IMul(I(2), ONE_18), UINT256_MAX}
RoundTripYs ==
    {I(-1), IZero, IOne, I(3), Dec(<<25, 0000, 0000, 0000, 0000>>), ONE_18, UINT256_MAX}

\* arguments of exp(ln(x)): below, at and above 1e18, up to the end of the
\* range (0, 135e18), and outside of it
ExpLnXs ==
    {IZero, IOne, I(2), I(3), Dec(<<50, 0000, 0000, 0000, 0000>>),
     ISub(ONE_18, IOne), ONE_18, IAdd(ONE_18, IOne),
     IMul(I(2), ONE_18), IMul(I(3), ONE_18), IMul(I(10), ONE_18),
     IMul(I(50), ONE_18), IMul(I(100), ONE_18), IMul(I(134), ONE_18),
     ISub(IMul(I(135), ONE_18), IOne), IMul(I(135), ONE_18), UINT256_MAX}

\* the calls a caller may issue first
Calls ==
    [fn : Fns3, args : Vals3 \X Vals3 \X Vals3]
    \cup [fn : Fns2, args : Vals2 \X Vals2]
    \cup [fn : {"ln"}, args : {<<x>> : x \in LnVals}]
    \cup [fn : {"exp"}, args : {<<x>> : x \in ExpVals}]
    \cup [fn : {"pow"}, args : PowBases \X PowExps]
    \cup [fn : {"round_trip"}, args : RoundTripXs \X RoundTripYs]
    \cup [fn : {"exp_ln"}, args : {<<x>> : x \in ExpLnXs}]

\* the calls a caller issues after it has handled an outcome
NextVals == {I(-1), IZero, I(2), UINT256_MAX}
NextCalls ==
    [fn : Fns3, args : {<<I(2), I(2), d>> : d \in {IZero, I(2)}}]
    \cup [fn : {"add", "sub"}, args : NextVals \X NextVals]
    \cup [fn : {"ln"}, args : {<<x>> : x \in NextVals}]
    \cup [fn : {"exp"}, args : {<<x>> : x \in {IZero, EXP_MAX}}]

NoErr == [fn |-> "none", kind |-> "none", msg |-> "none"]
NoResult == [raised |-> FALSE]

KernelInit ==
    /\ \E c \in Calls : fn = c.fn /\ args = c.args
    /\ pc = "call"
    /\ result = NoResult
    /\ lastErr = NoErr

Finish(r) ==
    /\ result' = r
    /\ pc' = "done"
    /\ UNCHANGED <<fn, args, lastErr>>
    /\ UNCHANGED tradeVars
    /\ UNCHANGED policyVars

Call_add == pc = "call" /\ fn = "add" /\ Finish(add(args[1], args[2]))
Call_sub == pc = "call" /\ fn = "sub" /\ Finish(sub(args[1], args[2]))
Call_mul_div_down ==
    pc = "call" /\ fn = "mul_div_down" /\ Finish(mul_div_down(args[1], args[2], args[3]))
Call_mul_down == pc = "call" /\ fn = "mul_down" /\ Finish(mul_down(args[1], args[2]))
Call_div_down == pc = "call" /\ fn = "div_down" /\ Finish(div_down(args[1], args[2]))
Call_mul_div_up ==
    pc = "call" /\ fn = "mul_div_up" /\ Finish(mul_div_up(args[1], args[2], args[3]))
Call_mul_up == pc = "call" /\ fn = "mul_up" /\ Finish(mul_up(args[1], args[2]))
Call_div_up == pc = "call" /\ fn = "div_up" /\ Finish(div_up(args[1], args[2]))
Call_ln == pc = "call" /\ fn = "ln" /\ Finish(ln(args[1]))
Call_exp == pc = "call" /\ fn = "exp" /\ Finish(exp(args[1]))
Call_pow == pc = "call" /\ fn = "pow" /\ Finish(pow(args[1], args[2]))
Call_round_trip ==
    pc = "call" /\ fn = "round_trip" /\ Finish(round_trip(args[1], args[2]))
Call_exp_ln == pc = "call" /\ fn = "exp_ln" /\ Finish(exp_ln(args[1]))

\* the exception propagates to the caller, which keeps it and issues a next call
NextCall ==
    /\ pc = "done"
    /\ lastErr' = IF result.raised
                  THEN [fn |-> fn, kind |-> result.kind, msg |-> result.msg]
                  ELSE lastErr
    /\ \E c \in NextCalls : fn' = c.fn /\ args' = c.args
    /\ pc' = "call"
    /\ result' = NoResult
    /\ UNCHANGED tradeVars
    /\ UNCHANGED policyVars

Init == KernelInit /\ TradeIdle /\ PolicyIdle

Next ==
    \/ Call_add
    \/ Call_sub
    \/ Call_mul_div_down
    \/ Call_mul_down
    \/ Call_div_down
    \/ Call_mul_div_up
    \/ Call_mul_up
    \/ Call_div_up
    \/ Call_ln
    \/ Call_exp
    \/ Call_pow
    \/ Call_round_trip
    \/ Call_exp_ln
    \/ NextCall

Spec == Init /\ [][Next]_vars

(***************************************************************************)
(* Properties of the kernel.                                               *)
(***************************************************************************)
DownFns == {"mul_div_down", "mul_down", "div_down"}
UpFns == {"mul_div_up", "mul_up", "div_up"}

\* the operands x, y, d of the multiply-divide behind the finished call
MulDivX == args[1]
MulDivY == IF fn \in {"div_down", "div_up"} THEN ONE_18 ELSE args[2]
MulDivD ==
    IF fn \in {"mul_down", "mul_up"} THEN ONE_18
    ELSE IF fn \in {"div_down", "div_up"} THEN args[2]
    ELSE args[3]

NonNeg(a) == IGe(a, IZero)
InRange256(a) == IGe(a, IZero) /\ ILe(a, UINT256_MAX)

\* q = floor(z / d) and q = ceil(z / d) for d > 0, stated by multiplication
IsFloorOf(q, z, d) == ILe(IMul(q, d), z) /\ ILt(z, IMul(IAdd(q, IOne), d))
IsCeilOf(q, z, d) == IGe(IMul(q, d), z) /\ ILt(IMul(ISub(q, IOne), d), z)

\* C1: for non-negative x, y and d > 0, mul_div_down (and mul_down, div_down
\* through it) returns exactly floor(x * y / d), never more than the quotient.
C1_MulDivDownIsFloor ==
    (pc = "done" /\ fn \in DownFns
        /\ NonNeg(MulDivX) /\ NonNeg(MulDivY) /\ IGt(MulDivD, IZero))
    => (~result.raised
        /\ IsFloorOf(result.value, IMul(MulDivX, MulDivY), MulDivD))

\* C2: for non-negative x, y and d > 0, mul_div_up (and mul_up, div_up through
\* it) returns exactly ceil(x * y / d): 0 when the product is 0, otherwise the
\* least q with q * d >= x * y.
C2_MulDivUpIsCeil ==
    (pc = "done" /\ fn \in UpFns
        /\ NonNeg(MulDivX) /\ NonNeg(MulDivY) /\ IGt(MulDivD, IZero))
    => (~result.raised
        /\ IF IMul(MulDivX, MulDivY) = IZero
           THEN result.value = IZero
           ELSE IsCeilOf(result.value, IMul(MulDivX, MulDivY), MulDivD))

\* mul_div_up(3, 1, 2) has returned 2 (3 / 2 rounded up)
C2_Witness ==
    /\ pc = "done" /\ fn = "mul_div_up"
    /\ args = <<I(3), I(1), I(2)>>
    /\ ~result.raised /\ result.value = I(2)

\* C3: for non-negative a, b, add returns a + b whenever the sum fits 256 bits
\* and signals Overflow exactly when it does not.
C3_AddOverflowAt256 ==
    (pc = "done" /\ fn = "add" /\ NonNeg(args[1]) /\ NonNeg(args[2]))
    => IF ILe(IAdd(args[1], args[2]), UINT256_MAX)
       THEN ~result.raised /\ ISub(result.value, args[2]) = args[1]
       ELSE result.raised /\ result.msg = "FixedPointMath_AddOverflow"

\* C4: sub(a, b) signals its underflow error and returns no value whenever
\* b > a, and returns exactly a - b whenever b <= a.
C4_SubUnderflow ==
    (pc = "done" /\ fn = "sub")
    => IF IGt(args[2], args[1])
       THEN result.raised /\ result.msg = "FixedPointMath_SubOverflow"
       ELSE ~result.raised /\ IAdd(result.value, args[2]) = args[1]

\* sub(5, 10) has raised
C4_Witness ==
    /\ pc = "done" /\ fn = "sub"
    /\ args = <<I(5), I(10)>>
    /\ result.raised

InvalidInputMsgs ==
    {"FixedPointMath_mulDivDown_InvalidInput", "FixedPointMath_mulDivUp_InvalidInput"}

\* C5: the multiply-divide family signals InvalidInput and returns no value
\* whenever d = 0, for every x and y, and returns a value whenever d # 0.
C5_ZeroDivisorInvalidInput ==
    (pc = "done" /\ fn \in (DownFns \cup UpFns))
    => IF MulDivD = IZero
       THEN result.raised /\ result.kind = "ValueError"
            /\ result.msg \in InvalidInputMsgs
       ELSE ~result.raised

\* div_up(a, 0) has raised for a large a
C5_Witness ==
    /\ pc = "done" /\ fn = "div_up"
    /\ args = <<UINT256_MAX, IZero>>
    /\ result.raised

DomainMsgs == {"FixedPointMath_NegativeOrZeroInput", "FixedPointMath_NegativeInput"}

\* C6: ln(x) and pow(x, y), for every y, signal the domain error and return no
\* value for every x <= 0; for x > 0 neither signals a domain error.
C6_LnDomain ==
    (pc = "done" /\ fn \in {"ln", "pow"})
    => IF ILe(args[1], IZero)
       THEN result.raised /\ result.kind = "ValueError"
            /\ result.msg = "FixedPointMath_NegativeOrZeroInput"
       ELSE ~(result.raised /\ result.msg \in DomainMsgs)

\* pow(0, y) has raised the domain error of ln
C6_Witness ==
    /\ pc = "done" /\ fn = "pow"
    /\ args[1] = IZero
    /\ result.raised /\ result.msg = "FixedPointMath_NegativeOrZeroInput"

\* C7: exp returns exactly 0 without an error for x <= EXP_MIN, signals
\* InvalidExponent for x >= EXP_MAX, and signals no error in between.
C7_ExpBounds ==
    (pc = "done" /\ fn = "exp")
    => IF ILe(args[1], EXP_MIN)
       THEN ~result.raised /\ result.value = IZero
       ELSE IF IGe(args[1], EXP_MAX)
       THEN result.raised /\ result.msg = "FixedPointMath_InvalidExponent"
       ELSE ~result.raised

\* exp(EXP_MIN - 1) has returned 0
C7_Witness ==
    /\ pc = "done" /\ fn = "exp"
    /\ args = <<ISub(EXP_MIN, IOne)>>
    /\ ~result.raised /\ result.value = IZero

\* the error condition of the specification that a message of the kernel reports
Condition(msg) ==
    IF msg = "FixedPointMath_AddOverflow" THEN "Overflow"
    ELSE IF msg = "FixedPointMath_SubOverflow" THEN "Underflow"
    ELSE IF msg \in InvalidInputMsgs THEN "InvalidInput"
    ELSE IF msg \in DomainMsgs THEN "DomainError"
    ELSE IF msg = "FixedPointMath_InvalidExponent" THEN "InvalidExponent"
    ELSE "other"

\* C8: two different error conditions of the kernel are never reported with
\* the same error kind (the class of the exception), whatever the messages.
C8_KindsDistinct ==
    (pc = "done" /\ result.raised /\ lastErr # NoErr
        /\ Condition(lastErr.msg) # Condition(result.msg))
    => lastErr.kind # result.kind

\* C9: for operands within the 256-bit range the multiply-divide family never
\* returns a value outside that range.
C9_ResultFits256 ==
    (pc = "done" /\ fn \in (DownFns \cup UpFns)
        /\ InRange256(MulDivX) /\ InRange256(MulDivY) /\ InRange256(MulDivD)
        /\ ~result.raised)
    => InRange256(result.value)

(***************************************************************************)
(* HyperdrivePricingModel.  The pricing model computes on Python floats    *)
(* (IEEE 754 doubles, every operation rounded to the nearest double, ties  *)
(* to even).  A float is modelled by an exact integer, its value times     *)
(* 2^FracBits, and every operation rounds its exact result to MantDig      *)
(* significant bits as the hardware does.                                  *)
(***************************************************************************)
\* Python floats are IEEE 754 doubles: sys.float_info.mant_dig significant bits
MantDig == 53

\* a float v is the exact integer v * 2^FracBits; every double of magnitude
\* at least 2^(MantDig - 1 - FracBits) is such an integer
FracBits == 64

\* m / 2^s for a magnitude m, rounded to the nearest integer, ties to the
\* even one
RoundHalfEven(m, s) ==
    IF s = 0 THEN m
    ELSE LET nearest(q, c) ==
                 IF c > 0 \/ (c = 0 /\ Limb(q, 1) % 2 = 1) THEN MagAdd(q, <<1>>) ELSE q
             rest(q) ==
                 Force(q, nearest(q, MagCmp(MagSub(m, MagShl(q, s)),
                                            MagShl(<<1>>, s - 1))))
         IN rest(MagShr(m, s))

\* the double nearest to the exact value n / 2^(FracBits + drop)
FRound(n, drop) ==
    LET s == MaxOf(MagBitLength(n.mag) - MantDig, drop)
    IN Force(n, MkInt(n.neg, MagShl(RoundHalfEven(n.mag, s), s - drop)))

\* the float of a small integer
F(n) == IShl(I(n), FracBits)

FAdd(a, b) == FRound(IAdd(a, b), 0)
FSub(a, b) == FRound(ISub(a, b), 0)
FNeg(a) == INeg(a)
FMul(a, b) == FRound(IMul(a, b), FracBits)

\* a / b for b # 0: the quotient with guard bits and a sticky bit, rounded
FDiv(a, b) ==
    LET g == MantDig + 2 + MagBitLength(b.mag)
        sticky(num, q) ==
            IAdd(IShl(q, 1), IF IMul(q, MkInt(FALSE, b.mag)) = num THEN IZero ELSE IOne)
        quotient(num) == sticky(num, IFloorDiv(num, MkInt(FALSE, b.mag)))
        signed(m) == MkInt(a.neg # b.neg, m.mag)
    IN FRound(signed(quotient(IShl(MkInt(FALSE, a.mag), FracBits + g))), g + 1)

\* the object of the caller and the object MarketState.copy() creates
CallerRef == 1
WorkRef == 2

\* bound of the traded amounts
MaxAmount == 3

Units == {"BASE", "PT", "OTHER"}
TradeOps == {"calc_in_given_out", "calc_out_given_in"}

MarketStates ==
    [share_reserves : {F(100)},
     bond_reserves : {F(100)},
     share_price : {F(1), F(2)},
     init_share_price : {F(1)},
     redemption_fee_percent : {F(0), FDiv(F(1), F(10))},
     curve_fee_percent : {FDiv(F(1), F(10))},
     governance_fee_percent : {F(0)}]

\* StretchedTime(days, time_stretch, normalizing_constant) of a position of
\* ninety days: matured, five days left, half way, freshly opened
StretchedTimes ==
    [days : {F(0), F(5), F(45), F(90)},
     time_stretch : {F(1)},
     normalizing_constant : {F(90)}]

TradeCalls ==
    [op : TradeOps,
     unit : Units,
     amount : {F(a) : a \in 0..MaxAmount},
     time_remaining : StretchedTimes]

\* StretchedTime.normalized_time: the days remaining over the full term
normalized_time(tr) == FDiv(tr.days, tr.normalizing_constant)

\* MarketState.copy(): a new object with the field values of the object ref
copy(h, ref) ==
    [heap |-> [o \in DOMAIN h \cup {WorkRef} |-> IF o = WorkRef THEN h[ref] ELSE h[o]],
     ref |-> WorkRef]

\* the handler keeps working on the caller's object (no copy is taken)
working_copy_alias(h, ref) == [heap |-> h, ref |-> ref]

\* market_state = market_state.copy(): the local name is bound to a copy
working_copy(h, ref) == copy(h, ref)

TradeResult(user, market, breakdown) ==
    [user_result |-> user, market_result |-> market, breakdown |-> breakdown]
Legs(d_base, d_bonds) == [d_base |-> d_base, d_bonds |-> d_bonds]
TradeBreakdown(wfs, wf, fee, wfee) ==
    [without_fee_or_slippage |-> wfs, without_fee |-> wf, fee |-> fee, with_fee |-> wfee]

\* the slippage and the fee of the curve for the quantity q: none, or a
\* half and a quarter of q
CurveSlippages(q) == {F(0), FMul(q, IShr(F(1), 1))}
CurveFees(q) == {F(0), FMul(q, IShr(F(1), 2))}

\* The outcomes of YieldspacePricingModel.calc_out_given_in for the quantity
\* q in the given unit: the curve-domain error (never for a trade of size
\* zero), or a trade whose output is the baseline q less a slippage and a
\* fee, with sign-opposite legs.
yieldspace_calc_out_given_in(q, unit) ==
    (IF q = F(0) THEN {} ELSE {Raise("ValueError", "NegativeOrZeroInput")})
    \cup {Return(LET trade(wf, wfee, user) ==
                         TradeResult(user, Legs(FNeg(user.d_base), FNeg(user.d_bonds)),
                                     TradeBreakdown(q, wf, fee, wfee))
                     legs(wf, wfee) ==
                         trade(wf, wfee, IF unit = "BASE" THEN Legs(FNeg(q), wfee)
                                         ELSE Legs(wfee, FNeg(q)))
                     output(wf) == legs(wf, FSub(wf, fee))
                 IN output(FSub(q, slip))) :
            slip \in CurveSlippages(q), fee \in CurveFees(q)}

\* The outcomes of YieldspacePricingModel.calc_in_given_out: the input is the
\* baseline q plus a slippage and a fee.
yieldspace_calc_in_given_out(q, unit) ==
    (IF q = F(0) THEN {} ELSE {Raise("ValueError", "NegativeOrZeroInput")})
    \cup {Return(LET trade(wf, wfee, user) ==
                         TradeResult(user, Legs(FNeg(user.d_base), FNeg(user.d_bonds)),
                                     TradeBreakdown(q, wf, fee, wfee))
                     legs(wf, wfee) ==
                         trade(wf, wfee, IF unit = "BASE" THEN Legs(q, FNeg(wfee))
                                         ELSE Legs(FNeg(wfee), q))
                     input(wf) == legs(wf, FAdd(wf, fee))
                 IN input(FAdd(q, slip))) :
            slip \in CurveSlippages(q), fee \in CurveFees(q)}

\* the solver is given the time the caller says remains
SolverCall_days_remaining(amount, unit, ms, tr) ==
    [called |-> TRUE, amount |-> amount, unit |-> unit, market_state |-> ms,
     days |-> tr.days,
     time_stretch |-> tr.time_stretch,
     normalizing_constant |-> tr.normalizing_constant]

\* super().calc_..._given_...(quantity, market_state, StretchedTime(...)): the
\* arguments the solver is called with; the time remaining is the full term
SolverCall(amount, unit, ms, tr) ==
    [called |-> TRUE, amount |-> amount, unit |-> unit, market_state |-> ms,
     days |-> tr.normalizing_constant,
     time_stretch |-> tr.time_stretch,
     normalizing_constant |-> tr.normalizing_constant]

\* the whole quantity is handed to the solver, whatever the time remaining
curve_share_whole(amount, nt) ==
    amount

\* the quantity traded on the curve: amount * normalized_time
curve_share(amount, nt) ==
    FMul(amount, nt)

\* the reserves of the object ms after the matured bonds are redeemed 1:1:
\* share_reserves += d_shares, bond_reserves += d_bonds
adjust_reserves(h, ms, d_shares, d_bonds) ==
    [h EXCEPT ![ms].share_reserves = FAdd(@, d_shares),
              ![ms].bond_reserves = FAdd(@, d_bonds)]

\* calc_in_given_out up to the call of the solver: the heap with the adjusted
\* working copy and the arguments of the solver, or the AssertionError
calc_in_given_out_flat(h, out, time_remaining) ==
    LET flat(nt, d_bonds, wc) ==
            IF out.unit = "BASE"
            THEN [raised |-> FALSE,
                  heap |-> adjust_reserves(wc.heap, wc.ref,
                               FNeg(FDiv(d_bonds, h[CallerRef].share_price)), d_bonds),
                  call |-> SolverCall(curve_share(out.amount, nt), out.unit, wc.ref,
                                      time_remaining)]
            ELSE IF out.unit = "PT"
            THEN [raised |-> FALSE,
                  heap |-> adjust_reserves(wc.heap, wc.ref,
                               FDiv(d_bonds, h[CallerRef].share_price), FNeg(d_bonds)),
                  call |-> SolverCall(curve_share(out.amount, nt), out.unit, wc.ref,
                                      time_remaining)]
            ELSE [raised |-> TRUE, heap |-> wc.heap,
                  error |-> Raise("AssertionError",
                                  "pricing_models.calc_in_given_out: ERROR")]
        split(nt) ==
            flat(nt, FMul(out.amount, FSub(F(1), nt)), working_copy(h, CallerRef))
    IN split(normalized_time(time_remaining))

\* flat_with_fee of calc_in_given_out: the fee is added to the required input
flat_with_fee_in(flat_without_fee, redemption_fee) ==
    FAdd(flat_without_fee, redemption_fee)

\* calc_in_given_out after the solver has returned curve
calc_in_given_out_result(h, ms, out, time_remaining, curve) ==
    LET assemble(flat_without_fee, redemption_fee, flat_with_fee) ==
            TradeResult(
                IF out.unit = "BASE"
                THEN Legs(out.amount,
                          FAdd(FNeg(flat_with_fee), curve.user_result.d_bonds))
                ELSE Legs(FAdd(FNeg(flat_with_fee), curve.user_result.d_base),
                          out.amount),
                IF out.unit = "BASE"
                THEN Legs(FNeg(out.amount), curve.market_result.d_bonds)
                ELSE Legs(FAdd(flat_with_fee, curve.market_result.d_base),
                          curve.market_result.d_bonds),
                TradeBreakdown(
                    FAdd(flat_without_fee, curve.breakdown.without_fee_or_slippage),
                    FAdd(flat_without_fee, curve.breakdown.without_fee),
                    FAdd(redemption_fee, curve.breakdown.fee),
                    FAdd(flat_with_fee, curve.breakdown.with_fee)))
        fees(flat_without_fee, redemption_fee) ==
            assemble(flat_without_fee, redemption_fee,
                     flat_with_fee_in(flat_without_fee, redemption_fee))
        flat(flat_without_fee) ==
            fees(flat_without_fee,
                 FMul(flat_without_fee, h[ms].redemption_fee_percent))
    IN flat(FMul(out.amount, FSub(F(1), normalized_time(time_remaining))))

\* calc_out_given_in up to the call of the solver
calc_out_given_in_flat(h, in_, time_remaining) ==
    LET flat(nt, d_bonds, wc) ==
            IF in_.unit = "BASE"
            THEN [raised |-> FALSE,
                  heap |-> adjust_reserves(wc.heap, wc.ref,
                               FDiv(d_bonds, h[CallerRef].share_price), FNeg(d_bonds)),
                  call |-> SolverCall(curve_share(in_.amount, nt), in_.unit, wc.ref,
                                      time_remaining)]
            ELSE IF in_.unit = "PT"
            THEN [raised |-> FALSE,
                  heap |-> adjust_reserves(wc.heap, wc.ref,
                               FNeg(FDiv(d_bonds, h[CallerRef].share_price)), d_bonds),
                  call |-> SolverCall(curve_share(in_.amount, nt), in_.unit, wc.ref,
                                      time_remaining)]
            ELSE [raised |-> TRUE, heap |-> wc.heap,
                  error |-> Raise("AssertionError",
                                  "pricing_models.calc_out_given_in: ERROR")]
        split(nt) ==
            flat(nt, FMul(in_.amount, FSub(F(1), nt)), working_copy(h, CallerRef))
    IN split(normalized_time(time_remaining))

\* flat_with_fee computed as in calc_in_given_out (the fee added to the output)
flat_with_fee_out_added(flat_without_fee, redemption_fee) ==
    FAdd(flat_without_fee, redemption_fee)

\* flat_with_fee of calc_out_given_in: the fee is taken from the output
flat_with_fee_out(flat_without_fee, redemption_fee) ==
    FSub(flat_without_fee, redemption_fee)

\* calc_out_given_in after the solver has returned curve
calc_out_given_in_result(h, ms, in_, time_remaining, curve) ==
    LET assemble(flat_without_fee, redemption_fee, flat_with_fee) ==
            TradeResult(
                IF in_.unit = "BASE"
                THEN Legs(FNeg(in_.amount),
                          FAdd(flat_with_fee, curve.user_result.d_bonds))
                ELSE Legs(FAdd(flat_with_fee, curve.user_result.d_base),
                          FNeg(in_.amount)),
                IF in_.unit = "BASE"
                THEN Legs(in_.amount, curve.market_result.d_bonds)
                ELSE Legs(FAdd(FNeg(flat_with_fee), curve.market_result.d_base),
                          curve.market_result.d_bonds),
                TradeBreakdown(
                    FAdd(flat_without_fee, curve.breakdown.without_fee_or_slippage),
                    FAdd(flat_without_fee, curve.breakdown.without_fee),
                    FAdd(curve.breakdown.fee, redemption_fee),
                    FAdd(flat_with_fee, curve.breakdown.with_fee)))
        fees(flat_without_fee, redemption_fee) ==
            assemble(flat_without_fee, redemption_fee,
                     flat_with_fee_out(flat_without_fee, redemption_fee))
        flat(flat_without_fee) ==
            fees(flat_without_fee,
                 FMul(flat_without_fee, h[ms].redemption_fee_percent))
    IN flat(FMul(in_.amount, FSub(F(1), normalized_time(time_remaining))))

KernelIdle ==
    /\ fn = "none"
    /\ args = <<>>
    /\ pc = "idle"
    /\ result = NoResult
    /\ lastErr = NoErr

InitTrade ==
    /\ KernelIdle
    /\ tpc = "call"
    /\ tcall \in TradeCalls
    /\ \E m \in MarketStates : heap = [o \in {CallerRef} |-> m]
    /\ solver_call = NoSolverCall
    /\ solver_result = NoResult
    /\ tresult = [raised |-> FALSE]
    /\ PolicyIdle

\* the handler catches the error of the solver and raises one of its own
Outcome_wrapped(flat, curve, assembled) ==
    /\ heap' = flat.heap
    /\ solver_call' = IF flat.raised THEN NoSolverCall ELSE flat.call
    /\ solver_result' = IF flat.raised THEN NoResult ELSE curve
    /\ tresult' = IF flat.raised THEN flat.error
                  ELSE IF curve.raised THEN Raise("AssertionError", "trade failed")
                  ELSE Return(assembled)
    /\ tpc' = IF flat.raised \/ curve.raised THEN "raised" ELSE "returned"
    /\ UNCHANGED tcall
    /\ UNCHANGED kernelVars
    /\ UNCHANGED policyVars

\* the outcome of a handler: it has raised before the solver was called, or
\* the solver has raised, or the handler returns the assembled TradeResult
Outcome(flat, curve, assembled) ==
    /\ heap' = flat.heap
    /\ solver_call' = IF flat.raised THEN NoSolverCall ELSE flat.call
    /\ solver_result' = IF flat.raised THEN NoResult ELSE curve
    /\ tresult' = IF flat.raised THEN flat.error
                  ELSE IF curve.raised THEN curve
                  ELSE Return(assembled)
    /\ tpc' = IF flat.raised \/ curve.raised THEN "raised" ELSE "returned"
    /\ UNCHANGED tcall
    /\ UNCHANGED kernelVars
    /\ UNCHANGED policyVars

CalcInGivenOut ==
    /\ tpc = "call"
    /\ tcall.op = "calc_in_given_out"
    /\ LET solve(flat) ==
               \E curve \in IF flat.raised THEN {Raise("none", "none")}
                            ELSE yieldspace_calc_in_given_out(flat.call.amount,
                                                              tcall.unit) :
                   Outcome(flat, curve,
                           IF flat.raised \/ curve.raised THEN <<>>
                           ELSE calc_in_given_out_result(flat.heap,
                                    flat.call.market_state, tcall,
                                    tcall.time_remaining, curve.value))
       IN solve(calc_in_given_out_flat(heap, tcall, tcall.time_remaining))

CalcOutGivenIn ==
    /\ tpc = "call"
    /\ tcall.op = "calc_out_given_in"
    /\ LET solve(flat) ==
               \E curve \in IF flat.raised THEN {Raise("none", "none")}
                            ELSE yieldspace_calc_out_given_in(flat.call.amount,
                                                              tcall.unit) :
                   Outcome(flat, curve,
                           IF flat.raised \/ curve.raised THEN <<>>
                           ELSE calc_out_given_in_result(flat.heap,
                                    flat.call.market_state, tcall,
                                    tcall.time_remaining, curve.value))
       IN solve(calc_out_given_in_flat(heap, tcall, tcall.time_remaining))

NextTrade ==
    \/ CalcInGivenOut
    \/ CalcOutGivenIn

SpecTrade == InitTrade /\ [][NextTrade]_vars

(***************************************************************************)
(* Properties of the trade engine.                                         *)
(***************************************************************************)
\* C10: calc_out_given_in and calc_in_given_out, whether they return or raise,
\* leave the MarketState of the caller as it was before the call: every field
\* of the caller's object keeps its value.
C10_CallerStateUnchanged ==
    [][tpc = "call" => heap'[CallerRef] = heap[CallerRef]]_vars

\* a call has returned after adjusting the reserves of its working copy, which
\* is an object other than the caller's
C10_Witness ==
    /\ tpc = "returned"
    /\ solver_call.market_state # CallerRef
    /\ heap[solver_call.market_state].share_reserves # heap[CallerRef].share_reserves
    /\ heap[solver_call.market_state].bond_reserves # heap[CallerRef].bond_reserves

\* the flat share of the traded quantity: amount * (1 - normalized_time)
FlatShare(c) ==
    FMul(c.amount, FSub(F(1), normalized_time(c.time_remaining)))

\* C11: whenever the solver is called, the flat share amount * (1 - t) and the
\* curve share amount * t handed to the solver add up to exactly the amount
\* (the sum taken as the program would take it, in its own arithmetic).
C11_PartitionExact ==
    solver_call.called
    => FAdd(FlatShare(tcall), solver_call.amount) = tcall.amount

\* C12: the breakdown of every returned trade, of calc_out_given_in and of
\* calc_in_given_out, satisfies with_fee - without_fee = fee.
C12_FeeReconciles ==
    tpc = "returned"
    => FSub(tresult.value.breakdown.with_fee, tresult.value.breakdown.without_fee)
           = tresult.value.breakdown.fee

\* what one leg of the user and the same leg of the market fail to cancel
Retained(user_leg, market_leg) == FAdd(user_leg, market_leg)

\* the magnitude of d is at most the fee
WithinFee(d, fee) == ILe(d, fee) /\ IGe(d, FNeg(fee))

\* C13: in every returned TradeResult the user's and the market's d_base, and
\* their d_bonds, are sign-opposite, apart from at most the fee the pool keeps
\* (the solver's own legs being sign-opposite).
C13_LegsSignOpposite ==
    tpc = "returned"
    => /\ WithinFee(Retained(tresult.value.user_result.d_base,
                             tresult.value.market_result.d_base),
                    tresult.value.breakdown.fee)
       /\ WithinFee(Retained(tresult.value.user_result.d_bonds,
                             tresult.value.market_result.d_bonds),
                    tresult.value.breakdown.fee)

\* the redemption fee of the call c: flat amount * redemption_fee_percent
RedemptionFee(c) == FMul(FlatShare(c), heap[CallerRef].redemption_fee_percent)

ZeroLegs == Legs(F(0), F(0))
ZeroTrade == TradeResult(ZeroLegs, ZeroLegs, TradeBreakdown(F(0), F(0), F(0), F(0)))

\* C15: at normalized time 0 a call of either handler in either unit returns
\* (no error is raised), the flat amount is the full amount, the quantity
\* handed to the solver is exactly zero, and the curve contributes zero to
\* every field of the result.
C15_MaturedIsFlat ==
    (/\ tpc # "call"
     /\ tcall.unit \in {"BASE", "PT"}
     /\ normalized_time(tcall.time_remaining) = F(0))
    => /\ tpc = "returned"
       /\ FlatShare(tcall) = tcall.amount
       /\ solver_call.called /\ solver_call.amount = F(0)
       /\ solver_result = Return(ZeroTrade)
       /\ tresult.value.breakdown.without_fee_or_slippage = tcall.amount
       /\ tresult.value.breakdown.without_fee = tcall.amount
       /\ tresult.value.breakdown.fee = RedemptionFee(tcall)
       /\ tresult.value.market_result.d_bonds = F(0)

\* a trade of a positive amount at normalized time 0 has returned
C15_Witness ==
    /\ tpc = "returned"
    /\ tcall.unit = "PT"
    /\ IGt(tcall.amount, F(0))
    /\ tcall.time_remaining.days = F(0)
    /\ solver_call.amount = F(0)
    /\ tresult.value.breakdown.without_fee = tcall.amount

(***************************************************************************)
(* The core as a whole: a caller of the kernel or a caller of the trade    *)
(* engine.                                                                 *)
(***************************************************************************)
InitCore == Init \/ InitTrade
NextCore == Next \/ NextTrade
SpecCore == InitCore /\ [][NextCore]_vars

\* the error, if any, that ln or exp signals inside pow(x, y)
InnerError(lnx, y) ==
    IF lnx.raised THEN lnx
    ELSE exp(IFloorDiv(IMul(y, lnx.value), ONE_18))

\* C16: an error the solver signals during calc_out_given_in or
\* calc_in_given_out is the outcome of the call, unmodified: no TradeResult is
\* returned and the caller's MarketState is as before the call; an error ln or
\* exp signals inside pow is the outcome of pow, unmodified.
C16_ErrorsPropagate ==
    [][/\ (tpc = "call" /\ solver_result'.raised)
           => /\ tpc' = "raised"
              /\ tresult' = solver_result'
              /\ DOMAIN tresult' = {"raised", "kind", "msg"}
              /\ heap'[CallerRef] = heap[CallerRef]
       /\ (pc = "call" /\ fn = "pow" /\ InnerError(ln(args[1]), args[2]).raised)
           => result' = InnerError(ln(args[1]), args[2])]_vars

\* the solver has raised after the handler adjusted the reserves of its working
\* copy, and its error is the outcome of the call
C16_Witness ==
    /\ tpc = "raised"
    /\ solver_call.called
    /\ solver_result.raised
    /\ tresult = solver_result
    /\ heap[solver_call.market_state] # heap[CallerRef]

(***************************************************************************)
(* Properties of compositions of kernel operations.                        *)
(***************************************************************************)
\* d divides z
IsMultipleOf(z, d) == IMul(IFloorDiv(z, d), d) = z

LnExpRangeEnd == IMul(I(135), ONE_18)

\* |a - b|
Deviation(a, b) == IF IGe(a, b) THEN ISub(a, b) ELSE ISub(b, a)

\* C18 (as stated): for every x in (0, 135e18), exp(ln(x)) returns a value that
\* differs from x by at most 10 units of 1e-18.
C18_LnExpInverseAbsolute ==
    (/\ pc = "done"
     /\ fn = "exp_ln"
     /\ IGt(args[1], IZero)
     /\ ILt(args[1], LnExpRangeEnd))
    => /\ ~result.raised
       /\ ILe(Deviation(result.value, args[1]), I(10))

\* C18 (amended): for every x in (0, 135e18), exp(ln(x)) returns a value that
\* differs from x by at most 10 units of 1e-18 for x <= 1e18 and by at most
\* 10 * x / 1e18 units for x > 1e18 (a relative tolerance of 10 units in 1e18).
C18_LnExpInverseRelative ==
    (/\ pc = "done"
     /\ fn = "exp_ln"
     /\ IGt(args[1], IZero)
     /\ ILt(args[1], LnExpRangeEnd))
    => /\ ~result.raised
       /\ ILe(IMul(Deviation(result.value, args[1]), ONE_18),
              IMul(I(10), IF IGt(args[1], ONE_18) THEN args[1] ELSE ONE_18))

\* exp(ln(x)) has returned, for an x above 1e18, a value more than 10 units
\* away from x
C18_Witness ==
    /\ pc = "done"
    /\ fn = "exp_ln"
    /\ IGt(args[1], ONE_18)
    /\ ILt(args[1], LnExpRangeEnd)
    /\ ~result.raised
    /\ IGt(Deviation(result.value, args[1]), I(10))

(***************************************************************************)
(* The SimpleLP policy (agent0): on each call of action it appends the     *)
(* current PNL to its history, prunes the history, computes the            *)
(* time-weighted average PNL improvement and decides on a trade.           *)
(***************************************************************************)
\* FixedPoint(n), FixedPoint multiplication and division (1e18 fixed point)
FP(n) == IMul(I(n), ONE_18)
FPMul(a, b) == IFloorDiv(IMul(a, b), ONE_18)
FPDiv(a, b) == IFloorDiv(IMul(a, ONE_18), b)

\* bound of the block numbers of the calls
MaxBlock == 2

\* Config: lookback_length (calls), pnl_target, delta_liquidity
lookback_length == 3
pnl_target == FP(1)
delta_liquidity == FP(100)

\* pool_state.pool_info.lp_share_price
lp_share_price == FP(1)

\* the wallets handed to action: the base balance and the LP tokens
LpWallets ==
    [balance : {FP(0), FP(100)},
     lp_tokens : {FP(0), FP(100), FP(200), FP(300)}]

add_liquidity_trade(amount) == [action_type |-> "ADD_LIQUIDITY", trade_amount |-> amount]
remove_liquidity_trade(amount) ==
    [action_type |-> "REMOVE_LIQUIDITY", trade_amount |-> amount]

\* the loop of time_weighted_average_pnl over the pairs i - 1, i of the
\* history h: the sums, or the error of a division by zero
RECURSIVE twap_loop(_, _, _, _)
twap_loop(h, i, weighted_sum, total_weight) ==
    IF i > Len(h)
    THEN [raised |-> FALSE, weighted_sum |-> weighted_sum, total_weight |-> total_weight]
    ELSE IF h[i - 1][2] = IZero \/ h[i][1] = h[i - 1][1]
    THEN Raise("DivisionByZero", "Cannot divide by zero.")
    ELSE LET step(profit_change, weight) ==
                 twap_loop(h, i + 1, IAdd(weighted_sum, FPMul(profit_change, weight)),
                           IAdd(total_weight, weight))
         IN step(FPDiv(ISub(h[i][2], h[i - 1][2]), h[i - 1][2]),
                 FPDiv(FP(1), ISub(h[i][1], h[i - 1][1])))

\* SimpleLP.time_weighted_average_pnl on the history h.  The test
\* pnl_history[0] == 0 compares a pair with a number and is never true.
time_weighted_average_pnl(h) ==
    IF Len(h) <= 1
    THEN Return(IZero)
    ELSE LET average(sums) ==
                 IF sums.raised THEN sums
                 ELSE IF sums.total_weight = IZero THEN Return(IZero)
                 ELSE Return(FPDiv(sums.weighted_sum, sums.total_weight))
         IN average(twap_loop(h, 2, IZero, IZero))

\* the history after the pair (time, pnl) is appended and the history pruned
\* to the last lookback_length pairs
updated_history(h, time, pnl) ==
    LET pruned(a) ==
            IF Len(a) > lookback_length
            THEN SubSeq(a, Len(a) - lookback_length + 1, Len(a))
            ELSE a
    IN pruned(Append(h, <<time, pnl>>))

\* the trades action makes for the average t, on the wallet w
lp_trades(t, w) ==
    IF ILt(t, pnl_target)
    THEN IF IGe(w.balance, delta_liquidity)
         THEN <<add_liquidity_trade(delta_liquidity)>>
         ELSE <<>>
    ELSE IF IGt(t, pnl_target)
    THEN <<remove_liquidity_trade(IF ILe(delta_liquidity, w.lp_tokens)
                                  THEN delta_liquidity ELSE w.lp_tokens)>>
    ELSE <<>>

InitLP ==
    /\ KernelIdle
    /\ TradeIdle
    /\ LPIdle
    /\ SallyIdle
    /\ MarketIdle
    /\ ScriptsIdle

\* SimpleLP.action in a block not before the block of the last call
SimpleLP_action ==
    \E b \in block_number..MaxBlock, w \in LpWallets :
        LET decide(t) ==
                /\ twapnl' = t
                /\ lp_result' = IF t.raised THEN t ELSE Return(lp_trades(t.value, w))
            update(h) ==
                /\ pnl_history' = h
                /\ decide(time_weighted_average_pnl(h))
        IN /\ update(updated_history(pnl_history, FP(b), FPMul(w.lp_tokens, lp_share_price)))
           /\ block_number' = b
           /\ lp_wallet' = w
           /\ UNCHANGED kernelVars
           /\ UNCHANGED tradeVars
           /\ UNCHANGED sallyVars
           /\ UNCHANGED <<sim_market, invariant_loop, conversion, executor, fetcher>>

NextLP == SimpleLP_action

SpecLP == InitLP /\ [][NextLP]_vars

\* the trades of the given type in the list the last call returned
Trades(type) ==
    IF lp_result.raised \/ lp_wallet = NoWallet THEN {}
    ELSE {i \in DOMAIN lp_result.value : lp_result.value[i].action_type = type}

\* C19: SimpleLP.action adds liquidity only when the time-weighted average PNL
\* is above pnl_target, removes liquidity only when it is below pnl_target,
\* emits no trade when it equals pnl_target, and never emits both an add and a
\* remove in one call.
C19_AddAboveRemoveBelow ==
    /\ Trades("ADD_LIQUIDITY") # {} => IGt(twapnl.value, pnl_target)
    /\ Trades("REMOVE_LIQUIDITY") # {} => ILt(twapnl.value, pnl_target)
    /\ (lp_wallet # NoWallet /\ ~twapnl.raised /\ twapnl.value = pnl_target)
           => lp_result = Return(<<>>)
    /\ Trades("ADD_LIQUIDITY") = {} \/ Trades("REMOVE_LIQUIDITY") = {}

\* C26: SimpleLP.time_weighted_average_pnl never divides by zero: whatever the
\* history, the call returns a value (0 when the history has fewer than two
\* entries) and never raises a division by zero.
C26_NeverDividesByZero ==
    /\ ~twapnl.raised
    /\ (lp_wallet # NoWallet /\ Len(pnl_history) <= 1) => twapnl = Return(IZero)

(***************************************************************************)
(* The ShortSally policy (elfpy): on each call of action the agent closes  *)
(* its mature shorts and opens a short if the rates invite it and it holds *)
(* none; the market applies the returned trades to the wallet.  Times are  *)
(* counted in periods, amounts in units of 1e-18 (scaled FixedPoint).      *)
(***************************************************************************)
\* bound of the time of the market
MaxTime == 4

\* market.annualized_position_duration, in periods
annualized_position_duration == 2

\* elfpy.WEI, the smallest amount
WEI == 1

\* risk_threshold of the agent and the spreads fixed_apr - variable_apr the
\* market may show, in basis points
risk_threshold == 200
Spreads == {100, 200, 300}

\* the results of get_max_short(market)
MaxShorts == {0, 150, 200, 1000}

SallyCalls == [gonna_trade : BOOLEAN, spread : Spreads, max_short : MaxShorts]

close_short_trade(amount, mint_time) ==
    [action_type |-> "CLOSE_SHORT", trade_amount |-> amount, mint_time |-> mint_time]
open_short_trade(amount, mint_time) ==
    [action_type |-> "OPEN_SHORT", trade_amount |-> amount, mint_time |-> mint_time]

\* the shorts of the wallet w that are mature at time now, oldest first
RECURSIVE mature_shorts(_, _, _)
mature_shorts(w, now, t) ==
    IF t > MaxTime THEN <<>>
    ELSE IF t \in DOMAIN w /\ now - t >= annualized_position_duration
    THEN <<close_short_trade(w[t], t)>> \o mature_shorts(w, now, t + 1)
    ELSE mature_shorts(w, now, t + 1)

\* has_opened_short: some short of the wallet has a positive balance
has_opened_short(w) == \E t \in DOMAIN w : w[t] > 0

\* the condition of opening a short, without the test of the shorts held
may_open_short_any(spread, opened) == spread < risk_threshold

\* the condition of opening a short
may_open_short(spread, opened) == spread < risk_threshold /\ ~opened

\* the trades ShortSally.action returns for the wallet w at time now
sally_trades(w, now, c) ==
    IF ~c.gonna_trade THEN <<>>
    ELSE mature_shorts(w, now, 0)
         \o (IF may_open_short(c.spread, has_opened_short(w))
                 /\ c.max_short \div 100 > WEI
             THEN <<open_short_trade(c.max_short \div 100, now)>>
             ELSE <<>>)

\* the wallet after the market has applied the trades: a closed short loses
\* the amount and leaves the wallet when nothing is left of it, an opened
\* short is added under its mint time
RECURSIVE apply_trades(_, _, _)
apply_trades(w, trades, i) ==
    IF i > Len(trades) THEN w
    ELSE LET tr == trades[i]
             balance == IF tr.mint_time \in DOMAIN w THEN w[tr.mint_time] ELSE 0
             after == IF tr.action_type = "OPEN_SHORT"
                      THEN balance + tr.trade_amount
                      ELSE balance - tr.trade_amount
             keys == IF after = 0 THEN DOMAIN w \ {tr.mint_time}
                     ELSE DOMAIN w \cup {tr.mint_time}
         IN apply_trades([t \in keys |-> IF t = tr.mint_time THEN after ELSE w[t]],
                         trades, i + 1)

InitSally ==
    /\ KernelIdle
    /\ TradeIdle
    /\ LPIdle
    /\ MarketIdle
    /\ ScriptsIdle
    /\ shorts = <<>>
    /\ block_time = 0
    /\ sally_call = NoSallyCall
    /\ sally_action_list = <<>>
    /\ sally_pc = "act"

\* ShortSally.action
ShortSally_action ==
    /\ sally_pc = "act"
    /\ \E c \in SallyCalls :
           /\ sally_call' = c
           /\ sally_action_list' = sally_trades(shorts, block_time, c)
    /\ sally_pc' = "apply"
    /\ UNCHANGED <<shorts, block_time>>
    /\ UNCHANGED <<kernelVars, tradeVars, lpVars>>
    /\ UNCHANGED <<sim_market, invariant_loop, conversion, executor, fetcher>>

\* the market applies the returned trades to the wallet, and time goes on
MarketApplies ==
    /\ sally_pc = "apply"
    /\ shorts' = apply_trades(shorts, sally_action_list, 1)
    /\ \E dt \in 0..1 : block_time + dt <= MaxTime /\ block_time' = block_time + dt
    /\ sally_pc' = "act"
    /\ UNCHANGED <<sally_call, sally_action_list>>
    /\ UNCHANGED <<kernelVars, tradeVars, lpVars>>
    /\ UNCHANGED <<sim_market, invariant_loop, conversion, executor, fetcher>>

NextSally ==
    \/ ShortSally_action
    \/ MarketApplies

SpecSally == InitSally /\ [][NextSally]_vars

\* the mint times of the shorts of the wallet with a positive balance
OpenShorts == {t \in DOMAIN shorts : shorts[t] > 0}

\* C20: action never returns an OPEN_SHORT trade while the wallet holds a short
\* with positive balance, and, the returned trades being applied to the wallet
\* before the next call, the wallet holds at most one short with positive
\* balance.
C20_OneShortAtATime ==
    /\ (sally_pc = "apply" /\ OpenShorts # {})
           => \A i \in DOMAIN sally_action_list :
                  sally_action_list[i].action_type # "OPEN_SHORT"
    /\ Cardinality(OpenShorts) <= 1

\* the agent holds a short, the rates invite a short and the market allows one,
\* and action has returned without an OPEN_SHORT trade
C20_Witness ==
    /\ sally_pc = "apply"
    /\ Cardinality(OpenShorts) = 1
    /\ sally_call.gonna_trade = TRUE
    /\ sally_call.spread < risk_threshold
    /\ sally_call.max_short \div 100 > WEI
    /\ \A i \in DOMAIN sally_action_list :
           sally_action_list[i].action_type # "OPEN_SHORT"

(***************************************************************************)
(* The call of the solver and the working copy it is given.                *)
(***************************************************************************)

\* the handler has passed the test of the unit and has called the solver
SolverReached ==
    /\ tpc # "call"
    /\ tpc # "idle"
    /\ tcall.unit \in {"BASE", "PT"}

\* C24: in every call of calc_out_given_in and calc_in_given_out that passes
\* the test of the unit, the solver is called, after the working copy has had
\* its reserves adjusted, with the quantity amount * normalized_time in the
\* unit of the caller, the working copy as reserves, and a StretchedTime of
\* the full term (days = normalizing_constant, the time_stretch and the
\* normalizing_constant of the caller), whatever the days remaining.
C24_SolverCalledWithFullTerm ==
    SolverReached
    => /\ solver_call.called
       /\ solver_call.amount
              = FMul(tcall.amount, normalized_time(tcall.time_remaining))
       /\ solver_call.unit = tcall.unit
       /\ solver_call.market_state = WorkRef
       /\ WorkRef \in DOMAIN heap
       /\ solver_call.days = tcall.time_remaining.normalizing_constant
       /\ solver_call.time_stretch = tcall.time_remaining.time_stretch
       /\ solver_call.normalizing_constant
              = tcall.time_remaining.normalizing_constant

\* a position with five of its ninety days left has been priced: the solver
\* was called with ninety days, and with a working copy that differs from the
\* state of the caller
C24_Witness ==
    /\ tpc = "returned"
    /\ tcall.time_remaining.days = F(5)
    /\ tcall.amount = F(3)
    /\ solver_call.called
    /\ solver_call.days = F(90)
    /\ heap[WorkRef] # heap[CallerRef]

\* share_price * share_reserves + bond_reserves of the object ref, as a real
\* number (scaled by 2^(2 * FracBits))
PoolValue(h, ref) ==
    IAdd(IMul(h[CallerRef].share_price, h[ref].share_reserves),
         IShl(h[ref].bond_reserves, FracBits))

\* the magnitude of the integer d
IAbs(d) == MkInt(FALSE, d.mag)

\* the real number d (scaled by 2^(2 * FracBits)) is at most 1e-18
WithinOneWei(d) ==
    ILe(IMul(IAbs(d), Dec(<<100, 0, 0, 0, 0>>)), IShl(IOne, 2 * FracBits))

\* the fields MarketState.copy() copies and the handler leaves alone
OtherFieldsCopied(h) ==
    /\ h[WorkRef].share_price = h[CallerRef].share_price
    /\ h[WorkRef].init_share_price = h[CallerRef].init_share_price
    /\ h[WorkRef].redemption_fee_percent = h[CallerRef].redemption_fee_percent
    /\ h[WorkRef].curve_fee_percent = h[CallerRef].curve_fee_percent
    /\ h[WorkRef].governance_fee_percent = h[CallerRef].governance_fee_percent

\* the two reserves of the working copy have not moved in the same direction
OppositeDirections(h) ==
    LET moved(d_shares, d_bonds) ==
            \/ d_shares = IZero /\ d_bonds = IZero
            \/ d_shares.neg # d_bonds.neg
            \/ d_shares = IZero
            \/ d_bonds = IZero
    IN moved(ISub(h[WorkRef].share_reserves, h[CallerRef].share_reserves),
             ISub(h[WorkRef].bond_reserves, h[CallerRef].bond_reserves))

\* C27: after the flat-leg adjustment the two reserves of the working copy
\* have moved in opposite directions, share_price * share_reserves +
\* bond_reserves of the working copy equals that of the state of the caller up
\* to 1e-18, and the other fields are those of the caller.
C27_FlatLegConservesValue ==
    SolverReached
    => /\ OppositeDirections(heap)
       /\ OtherFieldsCopied(heap)
       /\ WithinOneWei(ISub(PoolValue(heap, WorkRef), PoolValue(heap, CallerRef)))

\* the parts of C27 that do not depend on the rounding
C27_Directions ==
    SolverReached => OppositeDirections(heap) /\ OtherFieldsCopied(heap)

(***************************************************************************)
(* fetch_address_from_url (elfpy.data.contract_interface): the loop that    *)
(* requests the addresses of the deployed contracts.  One action is one     *)
(* pass of the loop; the server answers each request with a status of its  *)
(* choice.                                                                  *)
(***************************************************************************)

\* the bound of the loop: while attempt_num < 100
MAX_ATTEMPTS == 100

\* bound of the number of requests followed
MaxRequests == 102

\* the status codes a server answers with
StatusCodes == {200, 503}

\* response = None, and the response of a request
NoResponse == [is_none |-> TRUE, status_code |-> 0]
Response(status_code) == [is_none |-> FALSE, status_code |-> status_code]

InitFetch ==
    /\ KernelIdle
    /\ TradeIdle
    /\ LPIdle
    /\ SallyIdle
    /\ MarketIdle
    /\ LoopIdle
    /\ ConversionIdle
    /\ ExecutorIdle
    /\ fetcher = [pc |-> "loop", attempt_num |-> 0, response |-> NoResponse,
                  requests |-> 0, requests_after_200 |-> 0]

\* one pass of the loop: the request, and either the warning, the sleep and
\* continue, or attempt_num += 1
FetchRequest ==
    /\ fetcher.pc = "loop"
    /\ fetcher.attempt_num < MAX_ATTEMPTS
    /\ fetcher.requests < MaxRequests
    /\ \E status_code \in StatusCodes :
           fetcher' = [fetcher EXCEPT
               !.response = Response(status_code),
               !.requests = @ + 1,
               !.requests_after_200 =
                   IF fetcher.response.status_code = 200 \/ @ > 0 THEN @ + 1 ELSE @,
               !.attempt_num = IF status_code # 200 THEN @ ELSE @ + 1]
    /\ UNCHANGED <<kernelVars, tradeVars, lpVars, sallyVars>>
    /\ UNCHANGED <<sim_market, invariant_loop, conversion, executor>>

\* the loop is left: the function raises ConnectionError or returns the
\* addresses of the last response
FetchReturn ==
    /\ fetcher.pc = "loop"
    /\ ~(fetcher.attempt_num < MAX_ATTEMPTS)
    /\ fetcher' = [fetcher EXCEPT
           !.pc = IF fetcher.response.is_none THEN "ConnectionError"
                  ELSE IF fetcher.response.status_code # 200 THEN "ConnectionError"
                  ELSE "returned"]
    /\ UNCHANGED <<kernelVars, tradeVars, lpVars, sallyVars>>
    /\ UNCHANGED <<sim_market, invariant_loop, conversion, executor>>

NextFetch ==
    \/ FetchRequest
    \/ FetchReturn

SpecFetch == InitFetch /\ [][NextFetch]_vars

\* C28: fetch_address_from_url issues at most 100 requests, whatever the
\* server answers (a server that always fails cannot keep it requesting), and
\* issues no request after a response of status 200.
C28_AtMostHundredRequests ==
    fetcher.pc # "idle"
    => /\ fetcher.requests <= MAX_ATTEMPTS
       /\ fetcher.requests_after_200 = 0

(***************************************************************************)
(* build_transaction_object and convert_fixedpoint                          *)
(* (elfpy.data.contract_interface): the input parameters of a transaction   *)
(* are looked up with dict.get(key, None) and the amounts are converted     *)
(* from 1e18 scaled integers to floats.                                     *)
(***************************************************************************)

\* Python's None, and a value that is not None
PyNone == [is_none |-> TRUE]
Some(v) == [is_none |-> FALSE, value |-> v]

\* the parameters build_transaction_object passes through convert_fixedpoint,
\* and those it stores as they are
ConvertedParams ==
    {"_contribution", "_apr", "_baseAmount", "_minOutput", "_bondAmount",
     "_maxDeposit", "_minApr", "_maxApr", "_shares"}
PlainParams == {"_destination", "_asUnderlying", "_maturityTime"}

\* the parameters of the methods of the Hyperdrive contract
MethodParams ==
    [initialize |-> {"_contribution", "_apr", "_destination", "_asUnderlying"},
     openLong |-> {"_baseAmount", "_minOutput", "_destination", "_asUnderlying"},
     closeLong |-> {"_maturityTime", "_bondAmount", "_minOutput", "_destination",
                    "_asUnderlying"},
     openShort |-> {"_bondAmount", "_maxDeposit", "_destination", "_asUnderlying"},
     addLiquidity |-> {"_contribution", "_minApr", "_maxApr", "_destination",
                       "_asUnderlying"},
     removeLiquidity |-> {"_shares", "_minOutput", "_destination", "_asUnderlying"}]

\* the scaled amounts of the transactions followed: 0, 1e-18, 0.1, 0.5, 1.0
\* and 100.0
ScaledAmounts ==
    {IZero, IOne, Dec(<<10, 0, 0, 0, 0>>), Dec(<<50, 0, 0, 0, 0>>), ONE_18,
     Dec(<<1, 0, 0, 0, 0, 0>>)}

\* the arguments of the first TransferSingle log of a transaction, or the
\* empty dict of a transaction without one
EventArgs(amount) ==
    {[key \in {} |-> IZero],
     [key \in {"value", "from", "to", "operator", "id"} |->
          IF key = "value" THEN amount ELSE IOne]}

\* the transactions followed: a method, an amount for each of its converted
\* parameters (the same for all), its other parameters set, and its event
Transactions ==
    {[method |-> method,
      params |-> [key \in MethodParams[method] |->
                      IF key \in ConvertedParams THEN amount ELSE IOne],
      event_args |-> event_args] :
         method \in DOMAIN MethodParams, amount \in ScaledAmounts,
         event_args \in EventArgs(IOne)}

\* input_params.get(key, None)
dict_get(params, key) ==
    IF key \in DOMAIN params THEN Some(params[key]) ELSE PyNone

\* float(FixedPoint(scaled_value=v)): the double nearest to v / 10^18
scaled_to_float(v) == FDiv(IShl(v, FracBits), IShl(ONE_18, FracBits))

\* what FixedPoint(scaled_value=None) may do: the library is not part of the
\* repository; it builds the value 0 or rejects the argument
NoneOutcomes == {"zero", "TypeError"}

\* convert_fixedpoint(input_val).  The test "input is not None" is a test of
\* the builtin function input, which is never None, so the first branch is
\* taken for every input_val.
convert_fixedpoint(input_val, none_outcome) ==
    IF TRUE
    THEN IF ~input_val.is_none
         THEN Return(Some(scaled_to_float(input_val.value)))
         ELSE IF none_outcome = "zero"
         THEN Return(Some(F(0)))
         ELSE Raise("TypeError", "FixedPoint(scaled_value=None)")
    ELSE Return(PyNone)

\* the input_params_ and event_ fields of out_dict, or the error of the first
\* conversion that raises
out_dict_fields(params, event_args, none_outcome) ==
    LET fields(c, event_value) ==
            IF \E key \in ConvertedParams : c[key].raised
            THEN c[CHOOSE key \in ConvertedParams : c[key].raised]
            ELSE IF event_value.raised
            THEN event_value
            ELSE Return([input_params |->
                             [key \in ConvertedParams \cup PlainParams |->
                                  IF key \in ConvertedParams THEN c[key].value
                                  ELSE dict_get(params, key)],
                         event_value |-> event_value.value,
                         event_from |-> dict_get(event_args, "from"),
                         event_to |-> dict_get(event_args, "to"),
                         event_operator |-> dict_get(event_args, "operator"),
                         event_id |-> dict_get(event_args, "id")])
    IN fields([key \in ConvertedParams |->
                   convert_fixedpoint(dict_get(params, key), none_outcome)],
              convert_fixedpoint(dict_get(event_args, "value"), none_outcome))

InitConversion ==
    /\ KernelIdle
    /\ TradeIdle
    /\ LPIdle
    /\ SallyIdle
    /\ MarketIdle
    /\ LoopIdle
    /\ ExecutorIdle
    /\ FetcherIdle
    /\ \E transaction \in Transactions :
           conversion = [pc |-> "call", transaction_dict |-> transaction]

\* build_transaction_object(transaction_dict, logs, receipt): the fields of the
\* transaction taken from the input parameters and from the event
BuildTransactionObject ==
    /\ conversion.pc = "call"
    /\ \E none_outcome \in NoneOutcomes :
           LET built(out_dict) ==
                   conversion' =
                       [pc |-> IF out_dict.raised THEN "raised" ELSE "returned",
                        transaction_dict |-> conversion.transaction_dict,
                        input_method |-> conversion.transaction_dict.method,
                        out_dict |-> out_dict]
           IN built(out_dict_fields(conversion.transaction_dict.params,
                                    conversion.transaction_dict.event_args,
                                    none_outcome))
    /\ UNCHANGED <<kernelVars, tradeVars, lpVars, sallyVars>>
    /\ UNCHANGED <<sim_market, invariant_loop, executor, fetcher>>

SpecConversion == InitConversion /\ [][BuildTransactionObject]_vars

\* C23: build_transaction_object returns, and stores None for every converted
\* input parameter that is absent from the transaction.
C23_AbsentParamsAreNone ==
    conversion.pc \in {"returned", "raised"}
    => /\ conversion.pc = "returned"
       /\ \A key \in ConvertedParams :
              key \notin DOMAIN conversion.transaction_dict.params
              => conversion.out_dict.value.input_params[key] = PyNone

(***************************************************************************)
(* The loop of scripts/invariant_checks.py: main runs the invariant checks  *)
(* on the blocks from the block it started at up to the latest block, pass  *)
(* after pass.  One action is one pass of "while True"; the for loop over    *)
(* range(start_block_number, latest_block_number + 1) is recorded as the    *)
(* interval of blocks it went through, checked or skipped.                  *)
(***************************************************************************)

LOOKBACK_BLOCK_LIMIT == 1000

\* bound of the number of passes that run the for loop
MaxPasses == 4

\* the blocks mined between two calls of chain.block_number()
BlockJumps == {0, 1, 2, LOOKBACK_BLOCK_LIMIT + 1, LOOKBACK_BLOCK_LIMIT + 2}

\* the state of main when it enters the loop, the chain at block head
LoopStart(head, pool_check_sleep_blocks) ==
    [pc |-> "loop",
     pool_check_sleep_blocks |-> pool_check_sleep_blocks,
     last_executed_block_number |-> -pool_check_sleep_blocks - 1,
     last_pool_check_block_number |-> 0,
     start_block_number |-> head,
     first_block |-> head,
     head |-> head,
     log |-> <<>>]

InitLoop ==
    /\ KernelIdle
    /\ TradeIdle
    /\ LPIdle
    /\ SallyIdle
    /\ MarketIdle
    /\ ConversionIdle
    /\ ExecutorIdle
    /\ FetcherIdle
    /\ \E head \in {0, 7}, pool_check_sleep_blocks \in {0, 300} :
           invariant_loop = LoopStart(head, pool_check_sleep_blocks)

\* the for loop leaves at once, with an error logged, when the latest block
\* is more than LOOKBACK_BLOCK_LIMIT blocks ahead of the start block
behind(start_block_number, latest_block_number) ==
    (latest_block_number - start_block_number) > LOOKBACK_BLOCK_LIMIT

\* the next pass starts at the block the last pass ended with
next_start_repeats(latest_block_number) == latest_block_number

\* start_block_number = latest_block_number + 1
next_start(latest_block_number) == latest_block_number + 1

\* the for loop over range(start_block_number, latest_block_number + 1): the
\* blocks of the range are checked one by one in increasing order, or none is
\* when the loop is behind
for_loop(l, latest_block_number) ==
    IF latest_block_number < l.start_block_number
    THEN l.log
    ELSE Append(l.log,
                [kind |-> IF behind(l.start_block_number, latest_block_number)
                          THEN "skipped" ELSE "checked",
                 first |-> l.start_block_number,
                 last |-> latest_block_number])

\* a pass that finds no block newer than the last one executed: main sleeps
TakeANap ==
    /\ invariant_loop.pc = "loop"
    /\ \E jump \in BlockJumps :
           LET pass(latest_block_number) ==
                   /\ ~(latest_block_number > invariant_loop.last_executed_block_number)
                   /\ invariant_loop' = [invariant_loop EXCEPT
                          !.head = latest_block_number,
                          !.last_pool_check_block_number =
                              IF latest_block_number
                                     > @ + invariant_loop.pool_check_sleep_blocks
                              THEN latest_block_number ELSE @]
           IN pass(invariant_loop.head + jump)
    /\ UNCHANGED <<kernelVars, tradeVars, lpVars, sallyVars>>
    /\ UNCHANGED <<sim_market, conversion, executor, fetcher>>

\* a pass that finds a new block: the pools are looked up again if it is time
\* to, the for loop runs, and the start block is moved past the latest block
RunChecks ==
    /\ invariant_loop.pc = "loop"
    /\ Len(invariant_loop.log) < MaxPasses
    /\ \E jump \in BlockJumps :
           LET pass(latest_block_number) ==
                   /\ latest_block_number > invariant_loop.last_executed_block_number
                   /\ invariant_loop' = [invariant_loop EXCEPT
                          !.head = latest_block_number,
                          !.last_pool_check_block_number =
                              IF latest_block_number
                                     > @ + invariant_loop.pool_check_sleep_blocks
                              THEN latest_block_number ELSE @,
                          !.last_executed_block_number = latest_block_number,
                          !.log = for_loop(invariant_loop, latest_block_number),
                          !.start_block_number = next_start(latest_block_number)]
           IN pass(invariant_loop.head + jump)
    /\ UNCHANGED <<kernelVars, tradeVars, lpVars, sallyVars>>
    /\ UNCHANGED <<sim_market, conversion, executor, fetcher>>

NextLoop ==
    \/ TakeANap
    \/ RunChecks

SpecLoop == InitLoop /\ [][NextLoop]_vars

\* the intervals of the log follow one another from the first block on, with
\* no gap and no overlap, and none is empty
Contiguous(l) ==
    \A i \in DOMAIN l.log :
        /\ l.log[i].first <= l.log[i].last
        /\ l.log[i].first = IF i = 1 THEN l.first_block ELSE l.log[i - 1].last + 1

MaxTrades == 2

Agents == {"alice", "bob"}

\* the trades agent.get_trades returns are made of: a long is opened, a long
\* is closed with or without its maturity time, a market is initialized
TradeKinds ==
    {[action_type |-> "OPEN_LONG", trade_amount |-> 1, maturity_time |-> 0],
     [action_type |-> "CLOSE_LONG", trade_amount |-> 2, maturity_time |-> 1],
     [action_type |-> "CLOSE_LONG", trade_amount |-> 2, maturity_time |-> 0],
     [action_type |-> "INITIALIZE_MARKET", trade_amount |-> 4, maturity_time |-> 0]}

TradeLists == UNION {[1..n -> TradeKinds] : n \in 0..MaxTrades}

\* what a coroutine has done, and what gather holds for it
Pending == [kind |-> "pending"]
WalletDeltas(balance) == [kind |-> "HyperdriveWalletDeltas", balance |-> balance]
Exception(name) == [kind |-> "Exception", name |-> name]

\* async_match_contract_call_to_trade up to its await: the ValueError it
\* raises before any contract call, or nothing
raises_before_call(trade) ==
    \/ trade.action_type = "INITIALIZE_MARKET"
    \/ trade.action_type = "CLOSE_LONG" /\ trade.maturity_time = 0

\* the results of async_match_contract_call_to_trade once the contract call
\* has completed: the wallet deltas built from the receipt, or the exception
\* of the call
call_outcomes(trade) ==
    IF raises_before_call(trade)
    THEN {Exception("ValueError")}
    ELSE {WalletDeltas(IF trade.action_type = "OPEN_LONG"
                       THEN -trade.trade_amount ELSE trade.trade_amount),
          Exception("ContractCallException")}

\* the list of results in the order the calls complete
gather_as_completed(results, i, outcome) ==
    LET slot == CHOOSE k \in DOMAIN results :
                    /\ results[k] = Pending
                    /\ \A j \in DOMAIN results : results[j] = Pending => k <= j
    IN [results EXCEPT ![slot] = outcome]

\* asyncio.gather(*calls, return_exceptions=True): the result of the i-th
\* awaitable is the i-th element of the list
gather(results, i, outcome) ==
    [results EXCEPT ![i] = outcome]

InitExec ==
    /\ KernelIdle
    /\ TradeIdle
    /\ LPIdle
    /\ SallyIdle
    /\ MarketIdle
    /\ LoopIdle
    /\ ConversionIdle
    /\ FetcherIdle
    /\ \E trades \in [Agents -> TradeLists] :
           executor = [pc |-> "gather",
                       trades |-> trades,
                       calls |-> [a \in Agents |-> [i \in DOMAIN trades[a] |-> Pending]],
                       results |-> [a \in Agents |-> [i \in DOMAIN trades[a] |-> Pending]],
                       wallet |-> [a \in Agents |-> 0],
                       returned |-> [a \in Agents |-> FALSE],
                       trade_results |-> [a \in Agents |-> <<>>]]

\* one of the concurrent calls completes
CallCompletes ==
    /\ executor.pc = "gather"
    /\ \E agent \in Agents :
       \E i \in DOMAIN executor.trades[agent] :
           /\ executor.calls[agent][i] = Pending
           /\ \E outcome \in call_outcomes(executor.trades[agent][i]) :
                  executor' = [executor EXCEPT
                      !.calls[agent][i] = outcome,
                      !.results[agent] = gather(@, i, outcome)]
    /\ UNCHANGED <<kernelVars, tradeVars, lpVars, sallyVars>>
    /\ UNCHANGED <<sim_market, invariant_loop, conversion, fetcher>>

\* agent.wallet.update(result) for every result that is wallet deltas, in the
\* order of the list
RECURSIVE wallet_after(_, _, _)
wallet_after(balance, results, i) ==
    IF i > Len(results) THEN balance
    ELSE wallet_after(IF results[i].kind = "HyperdriveWalletDeltas"
                      THEN balance + results[i].balance ELSE balance,
                      results, i + 1)

\* TradeResult(status, exception, agent, trade) for the pair (result, trade)
make_trade_result(res, trade) ==
    IF res.kind = "HyperdriveWalletDeltas"
    THEN [status |-> "SUCCESS", exception |-> "None", trade |-> trade]
    ELSE [status |-> "FAIL", exception |-> res.name, trade |-> trade]

\* gather has returned to an agent: the loop over zip(results, trades)
AgentCollects ==
    /\ executor.pc = "gather"
    /\ \E agent \in Agents :
           /\ ~executor.returned[agent]
           /\ \A i \in DOMAIN executor.results[agent] :
                  executor.calls[agent][i] # Pending
           /\ executor' = [executor EXCEPT
                  !.wallet[agent] = wallet_after(@, executor.results[agent], 1),
                  !.returned[agent] = TRUE,
                  !.trade_results[agent] =
                      [i \in DOMAIN executor.trades[agent] |->
                           make_trade_result(executor.results[agent][i],
                                             executor.trades[agent][i])]]
    /\ UNCHANGED <<kernelVars, tradeVars, lpVars, sallyVars>>
    /\ UNCHANGED <<sim_market, invariant_loop, conversion, fetcher>>

NextExec ==
    \/ CallCompletes
    \/ AgentCollects

SpecExec == InitExec /\ [][NextExec]_vars

\* the sum of the wallet deltas of the calls of an agent that returned
RECURSIVE DeltasReturned(_, _)
DeltasReturned(calls, i) ==
    IF i = 0 THEN 0
    ELSE DeltasReturned(calls, i - 1)
         + (IF calls[i].kind = "HyperdriveWalletDeltas" THEN calls[i].balance ELSE 0)

\* C25: under every interleaving of the calls, an agent gets one TradeResult
\* per trade, in the order of its trades; a trade is SUCCESS iff its call
\* returned wallet deltas, FAIL with the exception of its call otherwise; the
\* wallet has exactly the deltas of the calls that returned, once each; and
\* every call of the agent has completed, whatever the other calls did.
C25_OneResultPerTradeInOrder ==
    executor.pc = "gather"
    => \A agent \in Agents :
           IF executor.returned[agent]
           THEN /\ Len(executor.trade_results[agent]) = Len(executor.trades[agent])
                /\ \A i \in DOMAIN executor.trades[agent] :
                       /\ executor.trade_results[agent][i].trade
                              = executor.trades[agent][i]
                       /\ executor.calls[agent][i] # Pending
                       /\ executor.trade_results[agent][i].status = "SUCCESS"
                              <=> executor.calls[agent][i].kind
                                      = "HyperdriveWalletDeltas"
                       /\ executor.trade_results[agent][i].status = "FAIL"
                              <=> /\ executor.calls[agent][i].kind = "Exception"
                                  /\ executor.trade_results[agent][i].exception
                                         = executor.calls[agent][i].name
                /\ executor.wallet[agent]
                       = DeltasReturned(executor.calls[agent],
                                        Len(executor.calls[agent]))
           ELSE executor.wallet[agent] = 0

\* an agent has its results: its first call raised and its second returned
\* wallet deltas, while a call of the other agent is still pending
C25_Witness ==
    /\ executor.pc = "gather"
    /\ executor.returned["alice"]
    /\ Len(executor.trades["alice"]) = 2
    /\ executor.trade_results["alice"][1].status = "FAIL"
    /\ executor.trade_results["alice"][1].exception = "ContractCallException"
    /\ executor.trade_results["alice"][2].status = "SUCCESS"
    /\ executor.wallet["alice"] # 0
    /\ \E i \in DOMAIN executor.calls["bob"] : executor.calls["bob"][i] = Pending

(***************************************************************************)
(* Market.trade_and_update (src/elfpy/markets.py): the simulated market     *)
(* prices the action of an agent, updates itself and the wallet of the      *)
(* agent.  The file holds both sides of an unresolved merge in __init__     *)
(* (l.110-133); a market is built from either side.                         *)
(***************************************************************************)

\* bound of the number of trades a market is followed through
MaxMarketTrades == 2

ModelNames == {"Element", "Hyperdrive", "YieldSpace"}
ActionTypes ==
    {"open_long", "close_long", "open_short", "close_short", "add_liquidity",
     "remove_liquidity", "withdraw"}
MergeSides == {"HEAD", "4225993"}

\* every action is allowed for a model that prices shorts or not
allowed_actions_with_shorts(model_name) ==
    IF model_name \in {"Element", "Hyperdrive"}
    THEN {"open_long", "close_long", "open_short", "close_short", "add_liquidity",
          "remove_liquidity"}
    ELSE {}

\* allowed_actions of trade_and_update for the model of the market
allowed_actions(model_name) ==
    IF model_name = "Element"
    THEN {"open_long", "close_long", "add_liquidity", "remove_liquidity"}
    ELSE IF model_name = "Hyperdrive"
    THEN {"open_long", "close_long", "open_short", "close_short", "add_liquidity",
          "remove_liquidity"}
    ELSE {}

NoMarketCall == [action_type |-> "none", outcome |-> "none"]

\* Market.__init__: the side HEAD of the merge raises AssertionError for a
\* model that is neither Element nor Hyperdrive, the other side builds the
\* market whatever the model
Market_init(model_name, side) ==
    IF side = "HEAD" /\ model_name \notin {"Element", "Hyperdrive"}
    THEN [pc |-> "AssertionError", model_name |-> model_name]
    ELSE [pc |-> "ready", model_name |-> model_name,
          share_reserves |-> 10, bond_reserves |-> 10,
          share_buffer |-> 0, bond_buffer |-> 0,
          share_fees |-> 0, token_fees |-> 0,
          wallet |-> 10, pricing_calls |-> 0,
          call |-> NoMarketCall]

\* the deltas of the market and of the agent the pricing of an action returns
TradeDeltas(action_type, amount) ==
    IF action_type = "open_long"
    THEN [d_base_asset |-> amount, d_token_asset |-> -amount, d_share_buffer |-> 0,
          d_bond_buffer |-> amount, d_share_fee |-> 0, d_token_fee |-> 1,
          agent |-> -amount]
    ELSE IF action_type = "close_long"
    THEN [d_base_asset |-> -amount, d_token_asset |-> amount, d_share_buffer |-> 0,
          d_bond_buffer |-> -amount, d_share_fee |-> 1, d_token_fee |-> 0,
          agent |-> amount]
    ELSE IF action_type = "open_short"
    THEN [d_base_asset |-> -amount, d_token_asset |-> amount,
          d_share_buffer |-> amount, d_bond_buffer |-> 0, d_share_fee |-> 1,
          d_token_fee |-> 0, agent |-> -1]
    ELSE IF action_type = "close_short"
    THEN [d_base_asset |-> amount, d_token_asset |-> -amount,
          d_share_buffer |-> -amount, d_bond_buffer |-> 0, d_share_fee |-> 0,
          d_token_fee |-> 1, agent |-> 1]
    ELSE IF action_type = "add_liquidity"
    THEN [d_base_asset |-> amount, d_token_asset |-> amount, d_share_buffer |-> 0,
          d_bond_buffer |-> 0, d_share_fee |-> 0, d_token_fee |-> 0,
          agent |-> -amount]
    ELSE [d_base_asset |-> -amount, d_token_asset |-> -amount, d_share_buffer |-> 0,
          d_bond_buffer |-> 0, d_share_fee |-> 0, d_token_fee |-> 0,
          agent |-> amount]

\* Market.update_market(market_deltas) and agent.update_wallet(agent_deltas),
\* the share price being 1
update_market(mkt, deltas) ==
    [mkt EXCEPT !.share_reserves = @ + deltas.d_base_asset,
                !.bond_reserves = @ + deltas.d_token_asset,
                !.share_buffer = @ + deltas.d_share_buffer,
                !.bond_buffer = @ + deltas.d_bond_buffer,
                !.share_fees = @ + deltas.d_share_fee,
                !.token_fees = @ + deltas.d_token_fee,
                !.wallet = @ + deltas.agent]

InitMarket ==
    /\ KernelIdle
    /\ TradeIdle
    /\ LPIdle
    /\ SallyIdle
    /\ ScriptsIdle
    /\ \E model_name \in ModelNames, side \in MergeSides :
           sim_market = Market_init(model_name, side)

\* Market.trade_and_update(agent_action)
TradeAndUpdate ==
    /\ sim_market.pc = "ready"
    /\ \E action_type \in ActionTypes, amount \in 1..2 :
           IF action_type \notin allowed_actions(sim_market.model_name)
           THEN sim_market' = [sim_market EXCEPT
                    !.call = [action_type |-> action_type,
                              outcome |-> "AssertionError"]]
           ELSE /\ sim_market.pricing_calls < MaxMarketTrades
                /\ LET priced(mkt) ==
                           sim_market' = [mkt EXCEPT
                               !.pricing_calls = @ + 1,
                               !.call = [action_type |-> action_type,
                                         outcome |-> "returned"]]
                   IN priced(update_market(sim_market, TradeDeltas(action_type, amount)))
    /\ UNCHANGED <<kernelVars, tradeVars, lpVars, sallyVars>>
    /\ UNCHANGED <<invariant_loop, conversion, executor, fetcher>>

SpecMarket == InitMarket /\ [][TradeAndUpdate]_vars

\* the action types the claim allows for a pricing model
ClaimedActions(model_name) ==
    IF model_name = "Element"
    THEN {"open_long", "close_long", "add_liquidity", "remove_liquidity"}
    ELSE IF model_name = "Hyperdrive"
    THEN {"open_long", "close_long", "add_liquidity", "remove_liquidity",
          "open_short", "close_short"}
    ELSE {}

\* the reserves, the buffers, the fee totals, the wallet of the agent and the
\* number of pricing calls made
MarketBalances(mkt) ==
    <<mkt.share_reserves, mkt.bond_reserves, mkt.share_buffer, mkt.bond_buffer,
      mkt.share_fees, mkt.token_fees, mkt.wallet, mkt.pricing_calls>>

\* C21: a call of trade_and_update with an action type that is not allowed for
\* the pricing model of the market raises AssertionError and leaves the
\* reserves, the buffers, the fee totals and the wallet as they were, with no
\* pricing call made; a call with an allowed action type is priced.
C21_OnlyAllowedActions ==
    [][sim_market.pc = "ready"
       => IF sim_market'.call.action_type \in ClaimedActions(sim_market.model_name)
          THEN /\ sim_market'.call.outcome = "returned"
               /\ sim_market'.pricing_calls = sim_market.pricing_calls + 1
          ELSE /\ sim_market'.call.outcome = "AssertionError"
               /\ MarketBalances(sim_market') = MarketBalances(sim_market)]_vars

\* an Element market that has priced a trade has refused to open a short
C21_Witness ==
    /\ sim_market.pc = "ready"
    /\ sim_market.model_name = "Element"
    /\ sim_market.pricing_calls > 0
    /\ sim_market.call = [action_type |-> "open_short", outcome |-> "AssertionError"]

====
